---- MODULE Spec2Model ----
(***************************************************************************)
(* Model of the similarity-graph builder (VisualizationApp in              *)
(* src/unnamed/part_003) and of the cluster detector (ClusterFusion in      *)
(* src/src/clusterFusion.js) of the jellysoul isotype visualization, and   *)
(* of the functions around them (noise, glyph shape, subjectivity         *)
(* profile, data loading).                                                 *)
(*                                                                         *)
(* Numbers.  A similarity is the JavaScript number dot / (sqrt(norm1) *    *)
(* sqrt(norm2)).  It is kept exactly, as the pair <<num, sq>> standing for *)
(* num / sqrt(sq), and compared exactly by cross-multiplying squares, so   *)
(* the model is the code under real arithmetic (no rounding, no overflow). *)
(* A threshold t is kept in hundredths: Hundredths(h) stands for h / 100.  *)
(***************************************************************************)
EXTENDS Integers, Sequences, FiniteSets, TLC

VARIABLES
    \* ---- cosineSimilarity / calculateSimilarity called on their own
    cosIn,        \* [vec1, vec2]: the arguments of the cosineSimilarity call
    cosOut,       \* its result, or NotCalled
    simIn,        \* [node1, node2, dimension]: arguments of calculateSimilarity
    simOut,       \* its result, or NotCalled
    \* ---- VisualizationApp: nodes, config and the link builder
    nodes,        \* this.nodes: sequence of nodes (1-based; index k is JS k-1)
    threshold,    \* this.config.similarityThreshold, in hundredths
    dimension,    \* this.config.dimension
    links,        \* the local `links` of generateLinksOptimized, then this.links
    linkSet,      \* the local `linkSet`: keys <<lo, hi>> of pairs already linked
    passIdx,      \* the loop variable i of generateLinksOptimized (JS index)
    passLog,      \* per finished pass: its sample, candidates and retained ones
    \* ---- ClusterFusion called on a node list and a link list
    cNodes,       \* the `nodes` argument: sequence of distinct node objects
    cPos,         \* node object -> [x, y]: the nodes' positions
    cLinks,       \* the `links` argument: sequence of [source, target, similarity]
    visited,      \* the Set `visited` of the latest detectClusters call
    lastCall,     \* [fn, result] of the latest call of another ClusterFusion function
    callLog,      \* every <<threshold, clusters>> a detectClusters call returned
    detectCalls,  \* how many detectClusters calls were made
    \* ---- EmotiveArt instances and calls that read their noise table
    artRandom,    \* per constructed EmotiveArt: what Math.random() returned
    artPrev,      \* the call before the latest: [fn, args, result]
    artCall,      \* the latest smoothNoise / generateFusionShape call
    \* ---- SubjectivityExtractor called on a node
    subjNode,     \* the node handed to extractSubjectivity
    subjProfile,  \* what the call returned, or NotCalled
    \* ---- getSampleIndices called on its own
    sampleIn,     \* [n, currentIndex, sampleSize]: this.nodes.length and the arguments
    sampleOut,    \* the indices returned, or <<-1>> before the call
    \* ---- DataLoader.load
    loadTried,    \* the fetches made so far: <<path, outcome>> each
    loadResult,   \* "pending", or how the promise of load() was settled
    \* ---- GroupIsotypeRenderer
    grpIn,        \* the inputs of the group renderer's call
    grpCall,      \* the renderGroups / selectDiverseSamples call and its result
    \* ---- the running VisualizationApp and its InteractionHandler
    phase,        \* "constructed", "loaded" (loadData has processed and rendered), "ready"
    participants, \* this.data.participants.length of the file loaded
    generation,   \* how many times processData has run
    appNodes,     \* this.nodes: node objects
    appLinks,     \* this.links: link objects
    config,       \* this.config: [dimension, similarityThreshold, layout]
    showClusterFusion,
    highlightedNode,   \* this.highlightedNode, NoNode for null
    highlightedLinks,  \* this.highlightedLinks
    selectedNode,      \* interactionHandler.selectedNode, NoNode for null
    handlerLinks,      \* interactionHandler.links, undefined before setup
    circles,      \* the data bound to the circles of .interaction-layer
    pointer,      \* the circle the pointer is over (from 1), 0 for none
    connections,  \* the 'Connections' count of #node-info, -1 when the panel is clear
    lastRender,   \* what the latest this.render() drew
    simulations,  \* per simulation created: the generation of the nodes it moves
    running,      \* the simulations whose timer runs
    simulation,   \* this.simulation (from 1), 0 for null
    timers,       \* the pending setTimeout(() => this.updateLayout(), 50) callbacks
    renderScheduled,
    position,     \* node.x, node.y of the nodes of this.nodes
    jumping       \* the running makeNodeJump animations, by node.id

cosVars == <<cosIn, cosOut, simIn, simOut>>
appVars == <<nodes, threshold, dimension, links, linkSet, passIdx, passLog>>
clVars == <<cNodes, cPos, cLinks, visited, lastCall, callLog, detectCalls>>
artVars == <<artRandom, artPrev, artCall>>
subjVars == <<subjNode, subjProfile>>
grpVars == <<grpIn, grpCall>>
\* the variables of the group renderer and of the running application
graphVars == <<generation, appNodes, appLinks, config>>
highlightVars == <<highlightedNode, highlightedLinks, selectedNode, connections>>
handlerVars == <<handlerLinks, circles, pointer>>
simVars == <<simulations, running, simulation, timers, renderScheduled>>
uiVars == <<phase, participants, graphVars, showClusterFusion, highlightVars, handlerVars,
            lastRender, simVars, position, jumping>>
lateVars == <<grpVars, uiVars>>
sampleVars == <<sampleIn, sampleOut>>
loadVars == <<loadTried, loadResult>>
\* what the actions on cosVars, appVars and clVars leave alone
extVars == <<artVars, subjVars, sampleVars, loadVars, lateVars>>
\* what the actions on artVars leave alone
nonArtVars == <<cosVars, appVars, clVars, subjVars, sampleVars, loadVars, lateVars>>
\* what the actions on subjVars, sampleVars and loadVars leave alone
coreVars == <<cosVars, appVars, clVars, artVars>>
\* what the actions on lateVars leave alone
baseVars == <<coreVars, subjVars, sampleVars, loadVars>>
vars == <<cosVars, appVars, clVars, extVars>>

----------------------------------------------------------------------------
(* Bounds of the model *)

\* longest short vector drawn for a cosineSimilarity call
MaxVecLen == 2
\* largest node count of a link-building run (the first tier caps at 10 links,
\* so the cap binds from 12 nodes on)
MaxNodes == 12
\* at most this many nodes of a run carry the second signature
MaxOdd == 2
\* largest node count and link count of a ClusterFusion call
MaxCNodes == 4
MaxCLinks == 3
\* largest node count and link count when all four ClusterFusion functions
\* are called
MaxFNodes == 3
MaxFLinks == 2
\* most detectClusters calls made on one node list and link list
MaxDetectCalls == 3
\* most nodes when calculateClusterBounds is called on drawn positions
MaxBNodes == 3
\* the longest text, in tokens
MaxTextLen == 3
\* most nodes when getSampleIndices is called on its own
MaxSampleNodes == 34
\* longest list of samples of a group, and most glyphs asked for
MaxSamples == 3
MaxGlyphs == 4
\* most runs of processData and most simulations created
MaxGenerations == 3
MaxSimulations == 3
\* most frames of a jump animation before its last
MaxFrames == 1
\* most EmotiveArt instances constructed
MaxInstances == 2

(* Constants of the program *)

\* vectors longer than this are summed over every other component
SampleDimLimit == 500
\* the tiers of generateLinksOptimized
SmallCount == 20
MediumCount == 50
SmallMaxLinks == 10
MediumMaxLinks == 8
LargeMaxLinks == 5
MediumSample == 30
LargeSample == 50
\* the local window of getSampleIndices
SampleWindow == 20
\* a cluster has at least this many nodes
MinClusterSize == 2
\* the points of a fusion shape
NumPoints == 32
\* radius = maxDistance * 1.3, in tenths
RadiusPadding == 13
\* the length of an EmotiveArt noise table
TableSize == 512
\* the points of a glyph outline
ShapePoints == 32
\* the octaves of smoothNoise: its default, and what generateFusionShape passes
DefaultOctaves == 4
FusionOctaves == 3

----------------------------------------------------------------------------
(* JavaScript values *)

\* a vector that is undefined (or null): `!vec` is true
Undefined == [def |-> FALSE, v |-> <<>>]
\* an array of numbers
Vec(s) == [def |-> TRUE, v |-> s]

\* the number num / sqrt(sq), sq > 0
Num(n, s) == [kind |-> "number", num |-> n, sq |-> s]
NaN == [kind |-> "NaN", num |-> 0, sq |-> 1]
\* a thrown TypeError (reading a property of undefined)
TypeError == [kind |-> "TypeError", num |-> 0, sq |-> 1]
NotCalled == [kind |-> "none", num |-> 0, sq |-> 1]
Zero == Num(0, 1)
One == Num(1, 1)
\* h / 100
Hundredths(h) == Num(h, 10000)

RECURSIVE Gcd(_, _)
Gcd(a, b) == IF b = 0 THEN a ELSE Gcd(b, a % b)

\* a >= b on numbers, as JavaScript's >= (false when either is NaN):
\* a.num / sqrt(a.sq) >= b.num / sqrt(b.sq), by signs and then by squares
\* (the common factor of a.sq and b.sq is divided out first)
SimGE(a, b) ==
    /\ a.kind = "number" /\ b.kind = "number"
    /\ LET g == Gcd(a.sq, b.sq)
           l == a.num * a.num * (b.sq \div g)
           r == b.num * b.num * (a.sq \div g)
       IN  IF a.num >= 0 /\ b.num <= 0 THEN TRUE
           ELSE IF a.num < 0 /\ b.num >= 0 THEN FALSE
           ELSE IF a.num >= 0 THEN l >= r ELSE l <= r
SimGT(a, b) == SimGE(a, b) /\ ~SimGE(b, a)
SimEq(a, b) == SimGE(a, b) /\ SimGE(b, a)

Min(a, b) == IF a <= b THEN a ELSE b
Max(a, b) == IF a >= b THEN a ELSE b

----------------------------------------------------------------------------
(* VisualizationApp.cosineSimilarity and calculateSimilarity *)

\* sum of a[i] * b[i] over the JS indices i = lo * step, ..., hi * step
RECURSIVE SumProdRange(_, _, _, _, _)
SumProdRange(a, b, lo, hi, step) ==
    IF lo > hi THEN 0
    ELSE IF lo = hi THEN a[lo * step + 1] * b[lo * step + 1]
    ELSE LET mid == (lo + hi) \div 2
         IN  SumProdRange(a, b, lo, mid, step) + SumProdRange(a, b, mid + 1, hi, step)
\* for (let i = 0; i < vec1.length; i += step): the sum of a[i] * b[i]
SumProd(a, b, i, step) == SumProdRange(a, b, i, (Len(a) - 1) \div step, step)

\* the same function without the guard of its first line
cosineSimilarity_noGuard(vec1, vec2) ==
    IF ~vec1.def \/ ~vec2.def THEN TypeError
    ELSE IF Len(vec1.v) # Len(vec2.v) THEN Zero
    ELSE LET step == IF Len(vec1.v) > SampleDimLimit THEN 2 ELSE 1
             dotProduct == step * SumProd(vec1.v, vec2.v, 0, step)
             norm1 == step * SumProd(vec1.v, vec1.v, 0, step)
             norm2 == step * SumProd(vec2.v, vec2.v, 0, step)
         IN  IF norm1 * norm2 = 0 THEN Zero ELSE Num(dotProduct, norm1 * norm2)


\* cosineSimilarity(vec1, vec2); denominator = sqrt(norm1) * sqrt(norm2) is 0
\* exactly when norm1 * norm2 is
cosineSimilarity(vec1, vec2) ==
    IF ~vec1.def \/ ~vec2.def \/ Len(vec1.v) # Len(vec2.v) THEN Zero
    ELSE LET step == IF Len(vec1.v) > SampleDimLimit THEN 2 ELSE 1
             dotProduct == step * SumProd(vec1.v, vec2.v, 0, step)
             norm1 == step * SumProd(vec1.v, vec1.v, 0, step)
             norm2 == step * SumProd(vec2.v, vec2.v, 0, step)
         IN  IF norm1 * norm2 = 0 THEN Zero ELSE Num(dotProduct, norm1 * norm2)

\* signature[dimension]: undefined for a key the signature does not have
SigField(sig, d) == IF d \in DOMAIN sig THEN sig[d] ELSE Undefined
\* a || b on vectors: an array is truthy, undefined is not
OrElse(a, b) == IF a.def THEN a ELSE b

\* calculateSimilarity(node1, node2, dimension)
calculateSimilarity(node1, node2, dim) ==
    IF dim = "multidimensional"
    THEN cosineSimilarity(node1.isotype_signature.unified,
                          node2.isotype_signature.unified)
    ELSE cosineSimilarity(
             OrElse(SigField(node1.isotype_signature, dim),
                    node1.isotype_signature.semantic),
             OrElse(SigField(node2.isotype_signature, dim),
                    node2.isotype_signature.semantic))

\* the vector calculateSimilarity selects for a node
SelectedVector(node, dim) ==
    IF dim = "multidimensional" THEN node.isotype_signature.unified
    ELSE OrElse(SigField(node.isotype_signature, dim),
                node.isotype_signature.semantic)

----------------------------------------------------------------------------
(* Inputs *)

\* the values of #dimension-select: the default and the keys of
\* StyleConfig.dimensionColors ("topic" and "experience" are no key of a signature)
Dimensions == {"multidimensional", "semantic", "emotion", "topic"}

\* isotype_signature objects as DataLoader.transformData builds them
Signature(sem, emo, uni) == [semantic |-> sem, emotion |-> emo, unified |-> uni]
SigA == Signature(Vec(<<1, 0>>), Vec(<<1, 1, 0>>), Vec(<<2, 1>>))
SigB == Signature(Undefined, Vec(<<0, 0, 0>>), Vec(<<1, 2>>))
SigC == Signature(Vec(<<0, 1>>), Vec(<<1, 1>>), Undefined)
SigD == Signature(Vec(<<1, 1, 1>>), Vec(<<0, 1, 1>>), Vec(<<2, 1, -1>>))
Signatures == {SigA, SigB, SigC, SigD}

Components == {-1, 0, 1, 2}
RECURSIVE SeqsUpTo(_, _)
SeqsUpTo(S, n) ==
    IF n = 0 THEN {<<>>}
    ELSE LET shorter == SeqsUpTo(S, n - 1)
         IN  shorter \cup {Append(s, x) : s \in {t \in shorter : Len(t) = n - 1}, x \in S}
ShortVectors == {Vec(s) : s \in SeqsUpTo(Components, MaxVecLen)}
\* vectors around the length at which cosineSimilarity starts skipping: a at the
\* even JS indices, b at the odd ones
LongVectors ==
    {Vec([k \in 1..len |-> IF (k - 1) % 2 = 0 THEN a ELSE b]) :
        len \in {SampleDimLimit, SampleDimLimit + 1, SampleDimLimit + 2},
        a \in {0, 1}, b \in {0, 1}}
Vectors == ShortVectors \cup LongVectors \cup {Undefined}

NoCosIn == [vec1 |-> Undefined, vec2 |-> Undefined]
NoSimIn == [node1 |-> [isotype_signature |-> SigA],
            node2 |-> [isotype_signature |-> SigA],
            dimension |-> "multidimensional"]

InitCos ==
    /\ \/ /\ cosIn \in [vec1 : Vectors, vec2 : Vectors]
          /\ simIn = NoSimIn
       \/ /\ cosIn = NoCosIn
          /\ simIn \in [node1 : {[isotype_signature |-> s] : s \in Signatures},
                        node2 : {[isotype_signature |-> s] : s \in Signatures},
                        dimension : Dimensions]
    /\ cosOut = NotCalled
    /\ simOut = NotCalled

CosineCall ==
    /\ cosOut = NotCalled
    /\ cosOut' = cosineSimilarity(cosIn.vec1, cosIn.vec2)
    /\ UNCHANGED <<cosIn, simIn, simOut, appVars, clVars, extVars>>

SimilarityCall ==
    /\ simOut = NotCalled
    /\ simOut' = calculateSimilarity(simIn.node1, simIn.node2, simIn.dimension)
    /\ UNCHANGED <<cosIn, cosOut, simIn, appVars, clVars, extVars>>


----------------------------------------------------------------------------
(* VisualizationApp.getSampleIndices and generateLinksOptimized *)

\* the tier of a node count
maxLinksPerNode(nodeCount) ==
    IF nodeCount <= SmallCount THEN Min(SmallMaxLinks, nodeCount - 1)
    ELSE IF nodeCount <= MediumCount THEN MediumMaxLinks
    ELSE LargeMaxLinks
sampleSizeOf(nodeCount) ==
    IF nodeCount <= SmallCount THEN nodeCount
    ELSE IF nodeCount <= MediumCount THEN Min(MediumSample, nodeCount)
    ELSE Min(LargeSample, nodeCount)

\* a Set as a sequence in insertion order: add x unless it is there
SetAdd(seq, x) == IF \E k \in 1..Len(seq) : seq[k] = x THEN seq ELSE Append(seq, x)

\* the window loop of getSampleIndices: for (i = start; i < end; i++)
RECURSIVE WindowIndices(_, _, _, _)
WindowIndices(i, end, currentIndex, indices) ==
    IF i >= end THEN indices
    ELSE WindowIndices(i + 1, end, currentIndex,
                       IF i # currentIndex THEN SetAdd(indices, i) ELSE indices)

\* the random loop: draws[k] is the k-th value of Math.floor(Math.random() * n)
RECURSIVE RandomIndices(_, _, _, _, _, _)
RandomIndices(i, randomCount, sampleSize, currentIndex, draws, indices) ==
    IF ~(i < randomCount /\ Len(indices) < sampleSize) THEN indices
    ELSE RandomIndices(i + 1, randomCount, sampleSize, currentIndex, draws,
                       IF draws[i + 1] # currentIndex
                       THEN SetAdd(indices, draws[i + 1]) ELSE indices)

\* a sample of random indices only, without the window of neighbours
getSampleIndices_drawsOnly(currentIndex, sampleSize, n, draws) ==
    RandomIndices(0, Len(draws), sampleSize, currentIndex, draws, <<>>)
\* getSampleIndices(currentIndex, sampleSize) over n nodes, for the given draws
getSampleIndices(currentIndex, sampleSize, n, draws) ==
    LET windowSize == Min(SampleWindow, n)
        start == Max(0, currentIndex - windowSize)
        end == Min(n, currentIndex + windowSize)
        window == WindowIndices(start, end, currentIndex, <<>>)
        randomCount == sampleSize - Len(window)
    IN  RandomIndices(0, randomCount, sampleSize, currentIndex, draws, window)

\* how many draws getSampleIndices can make
RandomCount(currentIndex, sampleSize, n) ==
    LET windowSize == Min(SampleWindow, n)
        start == Max(0, currentIndex - windowSize)
        end == Min(n, currentIndex + windowSize)
    IN  Max(0, sampleSize - Len(WindowIndices(start, end, currentIndex, <<>>)))

\* every sample getSampleIndices can return for some outcome of Math.random
SampleSets(currentIndex, sampleSize, n) ==
    {getSampleIndices(currentIndex, sampleSize, n, draws) :
        draws \in [1..RandomCount(currentIndex, sampleSize, n) -> 0..(n - 1)]}

\* a key that keeps the order of discovery
linkKey_ordered(i, j) == <<i, j>>
\* the key `${lo}-${hi}` of a pair of indices
linkKey(i, j) == IF i < j THEN <<i, j>> ELSE <<j, i>>

\* a comparison the wrong way round
PassesThreshold_inverted(similarity, th) == SimGE(Hundredths(th), similarity)
\* similarity >= threshold
PassesThreshold(similarity, th) == SimGE(similarity, Hundredths(th))

\* the candidate loop of pass i: for (const j of sampleIndices)
RECURSIVE Candidates(_, _, _, _, _, _, _)
Candidates(ns, th, dim, i, lset, sampleIndices, k) ==
    IF k > Len(sampleIndices) THEN <<>>
    ELSE LET j == sampleIndices[k]
             rest == Candidates(ns, th, dim, i, lset, sampleIndices, k + 1)
             similarity == calculateSimilarity(ns[i + 1], ns[j + 1], dim)
         IN  IF i = j THEN rest
             ELSE IF linkKey(i, j) \in lset THEN rest
             ELSE IF PassesThreshold(similarity, th)
                  THEN <<[target |-> j, similarity |-> similarity,
                          targetIndex |-> j]>> \o rest
                  ELSE rest

\* candidates.sort((a, b) => b.similarity - a.similarity): stable, descending
RECURSIVE InsertDesc(_, _, _)
InsertDesc(sorted, c, k) ==
    IF k > Len(sorted) THEN Append(sorted, c)
    ELSE IF SimGT(c.similarity, sorted[k].similarity)
         THEN SubSeq(sorted, 1, k - 1) \o <<c>> \o SubSeq(sorted, k, Len(sorted))
         ELSE InsertDesc(sorted, c, k + 1)
\* the candidates left in the order of discovery
SortDesc_unsorted(candidates, k) == SubSeq(candidates, 1, k)
RECURSIVE SortDesc(_, _)
SortDesc(candidates, k) ==
    IF k = 0 THEN <<>>
    ELSE InsertDesc(SortDesc(candidates, k - 1), candidates[k], 1)

\* every candidate kept
TopCandidates_all(sorted, maxLinks) == sorted
\* candidates.slice(0, maxLinksPerNode), maxLinksPerNode >= 0
TopCandidates(sorted, maxLinks) == SubSeq(sorted, 1, Min(maxLinks, Len(sorted)))

\* topCandidates.forEach(...): push the links whose key is not yet in linkSet
RECURSIVE PushLinks(_, _, _, _, _)
PushLinks(i, dim, top, k, acc) ==
    IF k > Len(top) THEN acc
    ELSE LET key == linkKey(i, top[k].targetIndex)
         IN  IF key \notin acc.linkSet
             THEN PushLinks(i, dim, top, k + 1,
                     [linkSet |-> acc.linkSet \cup {key},
                      links |-> Append(acc.links,
                                  [source |-> i, target |-> top[k].target,
                                   similarity |-> top[k].similarity,
                                   dimension |-> dim])])
             ELSE PushLinks(i, dim, top, k + 1, acc)

\* one pass of the outer loop of generateLinksOptimized, for node index i
LinkPassResult(ns, th, dim, i, ls, lset, sampleIndices) ==
    LET candidates == Candidates(ns, th, dim, i, lset, sampleIndices, 1)
        sorted == SortDesc(candidates, Len(candidates))
        top == TopCandidates(sorted, maxLinksPerNode(Len(ns)))
        pushed == PushLinks(i, dim, top, 1, [linkSet |-> lset, links |-> ls])
    IN  [links |-> pushed.links, linkSet |-> pushed.linkSet,
         log |-> [sample |-> sampleIndices, candidates |-> candidates, top |-> top]]

\* config.similarityThreshold as constructed
DefaultThreshold == 95
Thresholds == {50, DefaultThreshold}
LinkDimensions == {"multidimensional", "topic"}
\* the sets of at most MaxOdd node positions
RECURSIVE SubsetsUpTo(_, _)
SubsetsUpTo(S, m) ==
    IF m = 0 THEN {{}}
    ELSE LET smaller == SubsetsUpTo(S, m - 1)
         IN  smaller \cup {t \cup {x} : t \in smaller, x \in S}
OddSets(n) == SubsetsUpTo(1..n, MaxOdd)

\* processData has mapped the participants to nodes and generateLinksOptimized
\* is about to run its first pass
InitLinks ==
    /\ \E n \in 1..MaxNodes : \E odd \in OddSets(n) :
          nodes = [k \in 1..n |->
                     [id |-> k - 1,
                      isotype_signature |-> IF k \in odd THEN SigB ELSE SigA]]
    /\ threshold \in Thresholds
    /\ dimension \in LinkDimensions
    /\ links = <<>>
    /\ linkSet = {}
    /\ passIdx = 0
    /\ passLog = <<>>

\* the body of `for (let i = 0; i < this.nodes.length; i++)` for i = passIdx
LinkPass ==
    /\ passIdx < Len(nodes)
    /\ \E sampleIndices \in SampleSets(passIdx, sampleSizeOf(Len(nodes)), Len(nodes)) :
          LET r == LinkPassResult(nodes, threshold, dimension, passIdx,
                                  links, linkSet, sampleIndices)
          IN  /\ links' = r.links
              /\ linkSet' = r.linkSet
              /\ passLog' = Append(passLog, r.log)
    /\ passIdx' = passIdx + 1
    /\ UNCHANGED <<nodes, threshold, dimension, cosVars, clVars, extVars>>

\* generateLinksOptimized has returned `links`
LinksBuilt == passIdx = Len(nodes)


----------------------------------------------------------------------------
(* ClusterFusion.detectClusters *)

\* nodeIndexMap.get(node): the JS index of a node object, -1 for undefined
\* (forEach sets the entries in order, so a later index overwrites an earlier)
nodeIndexMapGet(ns, node) ==
    IF \E k \in 1..Len(ns) : ns[k] = node
    THEN (CHOOSE k \in 1..Len(ns) :
            /\ ns[k] = node
            /\ \A m \in (k + 1)..Len(ns) : ns[m] # node) - 1
    ELSE -1

NoNode == 0
\* a neighbour looked for at the source end only
NeighborOf_sourceOnly(link, currentNode) ==
    IF link.source = currentNode THEN link.target ELSE NoNode
\* neighborNode: the other end of a link that has currentNode at one end, else null
NeighborOf(link, currentNode) ==
    IF link.source = currentNode THEN link.target
    ELSE IF link.target = currentNode THEN link.source
    ELSE NoNode

\* every cluster kept
KeepCluster_any(cluster) == TRUE
\* cluster.length >= 2
KeepCluster(cluster) == Len(cluster) >= MinClusterSize

\* links.forEach(link => ...) for the node taken from the queue, from link k on;
\* st is [visited, cluster, queue]
RECURSIVE ScanLinks(_, _, _, _, _, _)
ScanLinks(ns, ls, th, currentNode, k, st) ==
    IF k > Len(ls) THEN st
    ELSE LET link == ls[k]
             neighborNode == NeighborOf(link, currentNode)
             neighborIndex == nodeIndexMapGet(ns, neighborNode)
         IN  IF /\ neighborNode # NoNode
                /\ neighborIndex # -1
                /\ neighborIndex \notin st.visited
                /\ SimGE(link.similarity, th)
             THEN ScanLinks(ns, ls, th, currentNode, k + 1,
                     [visited |-> st.visited \cup {neighborIndex},
                      cluster |-> Append(st.cluster, neighborNode),
                      queue |-> Append(st.queue, neighborIndex)])
             ELSE ScanLinks(ns, ls, th, currentNode, k + 1, st)

\* while (queue.length > 0) { currentIndex = queue.shift(); ... }
RECURSIVE Bfs(_, _, _, _)
Bfs(ns, ls, th, st) ==
    IF st.queue = <<>> THEN st
    ELSE LET currentIndex == Head(st.queue)
         IN  Bfs(ns, ls, th,
                 ScanLinks(ns, ls, th, ns[currentIndex + 1], 1,
                           [st EXCEPT !.queue = Tail(st.queue)]))

\* nodes.forEach((node, index) => ...) from JS index `index` on;
\* acc is [visited, clusters]
RECURSIVE DetectFrom(_, _, _, _, _)
DetectFrom(ns, ls, th, index, acc) ==
    IF index >= Len(ns) THEN acc
    ELSE IF index \in acc.visited THEN DetectFrom(ns, ls, th, index + 1, acc)
    ELSE LET st == Bfs(ns, ls, th,
                       [visited |-> acc.visited \cup {index},
                        cluster |-> <<ns[index + 1]>>,
                        queue |-> <<index>>])
         IN  DetectFrom(ns, ls, th, index + 1,
                 [visited |-> st.visited,
                  clusters |-> IF KeepCluster(st.cluster)
                               THEN Append(acc.clusters, st.cluster)
                               ELSE acc.clusters])

\* a visited set kept from the call before
StaleVisited(previous) == previous
\* const visited = new Set(): empty at every call, whatever the call before left
NewVisited(previous) == {}

\* detectClusters(nodes, links, similarityThreshold): [visited, clusters] at return
DetectRun(ns, ls, th, previousVisited) ==
    DetectFrom(ns, ls, th, 0, [visited |-> NewVisited(previousVisited), clusters |-> <<>>])
detectClusters(ns, ls, th) == DetectRun(ns, ls, th, {}).clusters


----------------------------------------------------------------------------
(* EmotiveArt.generateNoiseTable and smoothNoise.  Table entries, noise     *)
(* values and the coordinates x, y are kept in ten-thousandths.             *)

\* Math.sin(i * 0.1) * 0.4 + Math.sin(i * 0.3) * 0.3 + Math.sin(i * 0.7) * 0.2
\* for i = 0..511, rounded to ten-thousandths
SinPart ==
    <<0, 2574, 4460, 5258, 5024, 4209, 3437, 3202, 3633, 4449, 5103, 5068,
      4110, 2429, 594, -702, -949, -47, 1644, 3472, 4780, 5195, 4775, 3954,
      3308, 3257, 3848, 4720, 5268, 4931, 3474, 1114, -1552, -3794, -5065, -5225,
      -4578, -3715, -3216, -3382, -4095, -4889, -5191, -4618, -3186, -1331, 269, 991,
      548, -883, -2741, -4332, -5137, -5029, -4307, -3522, -3193, -3539, -4360, -5120,
      -5204, -4213, -2173, 453, 2955, 4674, 5283, 4911, 4059, 3351, 3230, 3756,
      4587, 5157, 4972, 3866, 2112, 321, -825, -873, 198, 1962, 3744, 4916,
      5174, 4649, 3818, 3251, 3316, 3990, 4852, 5285, 4765, 3128, 667, -1977,
      -4085, -5167, -5159, -4431, -3592, -3195, -3473, -4239, -4988, -5161, -4430, -2886,
      -1025, 465, 999, 365, -1185, -3045, -4532, -5180, -4938, -4163, -3423, -3204,
      -3655, -4509, -5196, -5117, -3936, -1755, 903, 3313, 4857, 5279, 4784, 3914,
      3283, 3278, 3889, 4717, 5188, 4848, 3603, 1794, 66, -917, -764, 462,
      2280, 3997, 5026, 5131, 4515, 3690, 3213, 3394, 4137, 4972, 5274, 4565,
      2757, 215, -2387, -4347, -5236, -5072, -4280, -3483, -3195, -3579, -4382, -5071,
      -5104, -4218, -2578, -729, 633, 973, 155, -1495, -3338, -4706, -5196, -4830,
      -4020, -3341, -3235, -3784, -4654, -5251, -4999, -3629, -1322, 1346, 3646, 5006,
      5248, 4646, 3777, 3233, 3345, 4028, 4836, 5196, 4698, 3323, 1479, -167,
      -975, -625, 745, 2594, 4230, 5108, 5067, 4375, 3573, 3194, 3489, 4288,
      5077, 5233, 4334, 2365, -239, -2778, -4577, -5275, -4966, -4130, -3390, -3214,
      -3697, -4522, -5134, -5021, -3984, -2263, -448, 771, 913, -79, -1811, -3617,
      -4855, -5187, -4710, -3882, -3275, -3286, -3922, -4791, -5280, -4848, -3295, -880,
      1777, 3951, 5123, 5193, 4501, 3649, 3203, 3428, 4171, 4943, 5178, 4522,
      3029, 1169, -375, -999, -455, 1041, 2902, 4440, 5163, 4983, 4231, 3468,
      3196, 3599, 4439, 5163, 5162, 4071, 1955, -691, -3147, -4774, -5284, -4846,
      -3982, -3313, -3253, -3825, -4656, -5176, -4910, -3730, -1945, -184, 878, 820,
      -335, -2129, -3879, -4977, -5154, -4580, -3750, -3228, -3355, -4067, -4917, -5283,
      -4664, -2936, -429, 2195, 4227, 5207, 5115, 4352, 3533, 3193, 3527, 4314,
      5034, 5134, 4321, 2725, 868, -557, -989, -258, 1347, 3201, 4627, 5191,
      4883, 4088, 3378, 3218, 3721, 4586, 5228, 5059, 3778, 1529, -1137, -3492,
      -4939, -5266, -4713, -3841, -3254, -3311, -3961, -4781, -5195, -4772, -3458, -1628,
      59, 952, 695, -609, -2446, -4122, -5072, -5100, -4442, -3627, -3201, -3442,
      -4217, -5029, -5256, -4447, -2554, 24, 2595, 4472, 5261, 5018, 4201, 3432,
      3203, 3640, 4456, 5107, 5064, 4097, 2412, 579, -709, -945, -35, 1661,
      3487, 4788, 5194, 4768, 3947, 3304, 3259, 3855, 4727, 5269, 4923, 3456,
      1090, -1574, -3810, -5072, -5222, -4571, -3708, -3215, -3387, -4103, -4894, -5190,
      -4608, -3170, -1314, 280, 992, 539, -899, -2757, -4343, -5140, -5025, -4299,
      -3516, -3193, -3545, -4368, -5124, -5200, -4199, -2151, 477, 2975, 4685, 5284,
      4904, 4051, 3347, 3232, 3763, 4594, 5159, 4966, 3852, 2096, 307, -831,
      -868, 211, 1979, 3757, 4923, 5173, 4642, 3811, 3248, 3320, 3997, 4859,
      5285, 4755, 3109, 643, -1999, -4100, -5171, -5155, -4423, -3586, -3195, -3479,
      -4246, -4993, -5158, -4419, -2870, -1009, 474, 998, 354, -1201, -3061, -4542,
      -5181, -4932, -4155, -3419, -3205, -3662, -4517, -5200, -5112, -3920, -1732, 927,
      3332, 4865, 5278, 4777, 3907, 3279, 3282, 3896>>

\* what Math.random() * 0.1 can add to an entry: the ends of [0, 0.1)
RandomParts == {0, 999}
\* the draws of one construction: entry i gets rand[(i mod Len(rand)) + 1];
\* here the constructions that drew the same value for every entry
RandomDraws == {<<r>> : r \in RandomParts}
\* this.noiseTable[i] of the instance whose draws were rand
noiseTableAt(rand, i) == SinPart[i + 1] + rand[(i % Len(rand)) + 1]
\* generateNoiseTable(size)
generateNoiseTable(size, rand) == [i \in 0..(size - 1) |-> noiseTableAt(rand, i)]

\* a % n of JavaScript: the sign of the dividend
JsRem(a, n) == IF a >= 0 THEN a % n ELSE 0 - ((0 - a) % n)
Abs(a) == IF a >= 0 THEN a ELSE 0 - a
\* a noise value: num / den ten-thousandths
Ratio(num, den) == [kind |-> "ratio", num |-> num, den |-> den]

\* the loop of smoothNoise from octave i on, with frequency = fnum / fden and
\* amplitude = 2^(-i): the sum of 2 * n * amplitude * 2^(octaves - 1)
RECURSIVE OctaveSum(_, _, _, _, _, _, _, _)
OctaveSum(x, y, seed, octaves, rand, i, fnum, fden) ==
    IF i >= octaves THEN 0
    ELSE LET nx == JsRem(((x * fnum) \div (100 * fden)) + 100 * seed, TableSize)
             ny == JsRem(((y * fnum) \div (100 * fden)) + 200 * seed, TableSize)
             n2 == noiseTableAt(rand, Abs(nx)) + noiseTableAt(rand, Abs(ny))
         IN  n2 * 2^(octaves - 1 - i)
                 + OctaveSum(x, y, seed, octaves, rand, i + 1, fnum * 18, fden * 10)

\* smoothNoise(x, y, seed, octaves) of the instance whose draws were rand:
\* value / maxValue, with maxValue = (2^octaves - 1) / 2^(octaves - 1)
smoothNoise(x, y, seed, octaves, rand) ==
    IF octaves <= 0 THEN NaN
    ELSE Ratio(OctaveSum(x, y, seed, octaves, rand, 0, 1, 1), 2 * (2^octaves - 1))

\* 2 * Math.cos(angle) and 2 * Math.sin(angle) for angle = 2 * pi * i / 32
TwoCos ==
    <<20000, 19616, 18478, 16629, 14142, 11111, 7654, 3902,
      0, -3902, -7654, -11111, -14142, -16629, -18478, -19616,
      -20000, -19616, -18478, -16629, -14142, -11111, -7654, -3902,
      0, 3902, 7654, 11111, 14142, 16629, 18478, 19616>>
TwoSin(i) == TwoCos[((i + 24) % 32) + 1]

----------------------------------------------------------------------------
(* ClusterFusion.calculateClusterBounds, generateFusionShape, renderClusters *)

\* a coordinate: a number, or undefined for a node no layout has placed
Coord(n) == [def |-> TRUE, n |-> n]
NoCoord == [def |-> FALSE, n |-> 0]
\* (node.x || 0)
CoordOr0(c) == IF c.def THEN c.n ELSE 0

Null == [kind |-> "null"]

RECURSIVE SumOver(_, _)
SumOver(f, k) == IF k = 0 THEN 0 ELSE f[k] + SumOver(f, k - 1)
RECURSIVE MaxOver(_, _)
MaxOver(f, k) == IF k = 0 THEN 0 ELSE Max(f[k], MaxOver(f, k - 1))

\* the loop body maxDistance = distance, without Math.max
calculateClusterBounds_lastDistance(cluster, pos) ==
    IF Len(cluster) = 0 THEN Null
    ELSE LET count == Len(cluster)
             sumX == SumOver([k \in 1..count |-> CoordOr0(pos[cluster[k]].x)], count)
             sumY == SumOver([k \in 1..count |-> CoordOr0(pos[cluster[k]].y)], count)
             dx == count * CoordOr0(pos[cluster[count]].x) - sumX
             dy == count * CoordOr0(pos[cluster[count]].y) - sumY
         IN  [kind |-> "bounds", sumX |-> sumX, sumY |-> sumY, count |-> count,
              maxDist2 |-> dx * dx + dy * dy, nodes |-> cluster]
\* calculateClusterBounds(cluster).  With count = cluster.length the result
\* stands for centerX = sumX / count, centerY = sumY / count and
\* radius = 1.3 * sqrt(maxDist2) / count: maxDist2 is the largest squared
\* distance from the center to a member, times count^2.
calculateClusterBounds(cluster, pos) ==
    IF Len(cluster) = 0 THEN Null
    ELSE LET count == Len(cluster)
             sumX == SumOver([k \in 1..count |-> CoordOr0(pos[cluster[k]].x)], count)
             sumY == SumOver([k \in 1..count |-> CoordOr0(pos[cluster[k]].y)], count)
             dist2 == [k \in 1..count |->
                         LET dx == count * CoordOr0(pos[cluster[k]].x) - sumX
                             dy == count * CoordOr0(pos[cluster[k]].y) - sumY
                         IN  dx * dx + dy * dy]
         IN  [kind |-> "bounds", sumX |-> sumX, sumY |-> sumY, count |-> count,
              maxDist2 |-> MaxOver(dist2, count), nodes |-> cluster]

\* radius = maxDistance * 1.3, as (10 * count * radius)^2
RadiusSq(bounds) == RadiusPadding * RadiusPadding * bounds.maxDist2

\* generateClusterSeed(nodes): node object k has id "P<k>" and, in a
\* ClusterFusion call of this model, no semantic vector (semanticSum is 0)
generateClusterSeed(cluster) ==
    SumOver([k \in 1..Len(cluster) |-> (cluster[k] * 100 + 0) * k], Len(cluster))

\* softness = 0.12 + avgEmotion * 0.1, in hundredths: a node handed to
\* ClusterFusion in this model has no emotion vector, so maxE is 0.5 for each
Softness(cluster) ==
    LET count == Len(cluster)
        avgEmotion == SumOver([k \in 1..count |-> 50], count) \div count
    IN  12 + (avgEmotion \div 10)
\* point i of generateFusionShape: its angle is 2 * pi * i / numPoints and its
\* distance from the center is radius * (0.94 + noise * softness), which is 0
\* whatever the noise when the radius is 0
FusionPoint(bounds, seed, rand, i) ==
    [angle |-> i,
     distance |-> IF bounds.maxDist2 = 0 THEN Zero
                  ELSE [kind |-> "scaled",
                        noise |-> smoothNoise(TwoCos[i + 1], TwoSin(i), seed,
                                              FusionOctaves, rand),
                        softness |-> Softness(bounds.nodes)]]
\* generateFusionShape(clusterBounds) of the ClusterFusion whose EmotiveArt
\* drew rand
generateFusionShape(bounds, rand) ==
    IF bounds = Null \/ Len(bounds.nodes) = 0 THEN Null
    ELSE LET seed == generateClusterSeed(bounds.nodes)
         IN  [kind |-> "shape",
              points |-> [i \in 1..NumPoints |-> FusionPoint(bounds, seed, rand, i - 1)],
              seed |-> seed, bounds |-> bounds]

\* similarityThreshold * 0.9
Relaxed(th) == Num(9 * th.num, 100 * th.sq)

\* b.bounds.radius - a.bounds.radius > 0: shape b has the larger radius
RadiusGT(b, a) ==
    b.bounds.maxDist2 * a.bounds.count * a.bounds.count
        > a.bounds.maxDist2 * b.bounds.count * b.bounds.count
\* fusionShapes.sort((a, b) => b.bounds.radius - a.bounds.radius): stable
RECURSIVE InsertByRadius(_, _, _)
InsertByRadius(sorted, c, k) ==
    IF k > Len(sorted) THEN Append(sorted, c)
    ELSE IF RadiusGT(c, sorted[k])
         THEN SubSeq(sorted, 1, k - 1) \o <<c>> \o SubSeq(sorted, k, Len(sorted))
         ELSE InsertByRadius(sorted, c, k + 1)
RECURSIVE SortByRadius(_, _)
SortByRadius(shapes, k) ==
    IF k = 0 THEN <<>>
    ELSE InsertByRadius(SortByRadius(shapes, k - 1), shapes[k], 1)

\* renderClusters(nodes, links, similarityThreshold): the shapes it returns
renderClusters(ns, ls, th, pos, rand) ==
    IF Len(ns) = 0 \/ Len(ls) = 0 THEN <<>>
    ELSE LET clusters == detectClusters(ns, ls, Relaxed(th))
             fusionShapes ==
                 [k \in 1..Len(clusters) |->
                     generateFusionShape(calculateClusterBounds(clusters[k], pos), rand)]
         IN  IF Len(clusters) = 0 THEN <<>>
             ELSE SortByRadius(fusionShapes, Len(fusionShapes))

(* What the four functions write to the objects they are handed: heap is
   [pos, links], the node positions and the link list. *)

\* a calculateClusterBounds that stores the defaulted coordinates in the nodes
BoundsHeap_storeDefaults(cluster, heap) ==
    [heap EXCEPT !.pos =
        [nd \in DOMAIN heap.pos |->
            IF \E k \in 1..Len(cluster) : cluster[k] = nd
            THEN [x |-> Coord(CoordOr0(heap.pos[nd].x)),
                  y |-> Coord(CoordOr0(heap.pos[nd].y))]
            ELSE heap.pos[nd]]]
\* detectClusters reads links and nodes; its pushes and shift go to its own
\* cluster, queue and clusters arrays
DetectHeap(heap) == heap
\* calculateClusterBounds reads node.x and node.y
BoundsHeap(cluster, heap) == heap
\* generateFusionShape reads the bounds; its pushes go to its own points array
ShapeHeap(bounds, heap) == heap
RECURSIVE BoundsHeapAll(_, _, _)
BoundsHeapAll(clusters, k, heap) ==
    IF k > Len(clusters) THEN heap
    ELSE BoundsHeapAll(clusters, k + 1,
            ShapeHeap(calculateClusterBounds(clusters[k], heap.pos),
                      BoundsHeap(clusters[k], heap)))
\* renderClusters: the three above, then a sort of its own fusionShapes array
\* and drawing calls on the canvas context
RenderHeap(ns, ls, th, heap) ==
    IF Len(ns) = 0 \/ Len(ls) = 0 THEN heap
    ELSE BoundsHeapAll(detectClusters(ns, ls, Relaxed(th)), 1, DetectHeap(heap))

----------------------------------------------------------------------------
(* ClusterFusion calls *)

\* similarities of the links handed to ClusterFusion
ClusterSimilarities == {Hundredths(60), One}
\* thresholds of the calls: below both similarities, and the app's default 0.95
ClusterThresholds == {Hundredths(50), Hundredths(DefaultThreshold)}

\* links between distinct nodes of 1..n: from the lower node to the higher
\* one, or (mirrored) from the higher to the lower
LinkValues(n, mirrored) ==
    {[source |-> IF mirrored THEN p[2] ELSE p[1],
      target |-> IF mirrored THEN p[1] ELSE p[2],
      similarity |-> sim] :
        p \in {q \in (1..n) \X (1..n) : q[1] < q[2]}, sim \in ClusterSimilarities}
\* link a comes before link b in the order of generateLinksOptimized's passes
\* (by lower end, then by higher end); mirrored: after it
LinkBefore(a, b, mirrored) ==
    LET lo(l) == Min(l.source, l.target)
        hi(l) == Max(l.source, l.target)
        before(x, y) == lo(x) < lo(y) \/ (lo(x) = lo(y) /\ hi(x) < hi(y))
    IN  IF mirrored THEN before(b, a) ELSE before(a, b)
\* the link lists of at most m links with at most one link per pair of nodes,
\* in that order
RECURSIVE LinkLists(_, _, _)
LinkLists(n, mirrored, m) ==
    IF m = 0 THEN {<<>>}
    ELSE LET shorter == LinkLists(n, mirrored, m - 1)
             longest == {t \in shorter : Len(t) = m - 1}
             fits(t, l) == t = <<>> \/ LinkBefore(t[Len(t)], l, mirrored)
         IN  shorter \cup
             UNION {{Append(t, l) : l \in {x \in LinkValues(n, mirrored) : fits(t, x)}} :
                        t \in longest}

\* node 1 not yet placed by a layout, node k at (0, 2k)
Layout(n) == [k \in 1..n |-> IF k = 1 THEN [x |-> NoCoord, y |-> NoCoord]
                              ELSE [x |-> Coord(0), y |-> Coord(2 * k)]]

NoCall == [fn |-> "none", result |-> <<>>]

InitClusters ==
    /\ \E n \in 0..MaxCNodes : \E mirrored \in BOOLEAN :
          /\ cNodes = [k \in 1..n |-> k]
          /\ cPos = Layout(n)
          /\ cLinks \in LinkLists(n, mirrored, MaxCLinks)
    /\ visited = {}
    /\ lastCall = NoCall
    /\ callLog = {}
    /\ detectCalls = 0

\* as InitClusters, with fewer nodes, shorter link lists and the links from
\* the lower node to the higher one
InitFusion ==
    /\ \E n \in 0..MaxFNodes :
          /\ cNodes = [k \in 1..n |-> k]
          /\ cPos = Layout(n)
          /\ cLinks \in LinkLists(n, FALSE, MaxFLinks)
    /\ visited = {}
    /\ lastCall = NoCall
    /\ callLog = {}
    /\ detectCalls = 0

DetectCall ==
    /\ detectCalls < MaxDetectCalls
    /\ detectCalls' = detectCalls + 1
    /\ UNCHANGED <<cosVars, appVars, extVars>>
    /\ \E th \in ClusterThresholds :
        LET run == DetectRun(cNodes, cLinks, th, visited)
            heap == DetectHeap([pos |-> cPos, links |-> cLinks])
        IN  /\ visited' = run.visited
            /\ callLog' = callLog \cup {<<th, run.clusters>>}
            /\ cPos' = heap.pos
            /\ cLinks' = heap.links
            /\ UNCHANGED <<cNodes, lastCall>>

\* the clusters detectClusters has returned so far, and the empty one
KnownClusters == {<<>>} \cup UNION {{e[2][k] : k \in 1..Len(e[2])} : e \in callLog}

\* coordinates a layout has given, or not given, to a node
BoundsXs == {NoCoord, Coord(-3), Coord(4)}
BoundsYs == {NoCoord, Coord(0), Coord(2)}
\* nodes at drawn positions, no links
InitBounds ==
    /\ \E n \in 1..MaxBNodes :
          /\ cNodes = [k \in 1..n |-> k]
          /\ cPos \in [1..n -> [x : BoundsXs, y : BoundsYs]]
    /\ cLinks = <<>>
    /\ visited = {}
    /\ lastCall = NoCall
    /\ callLog = {}
    /\ detectCalls = 0

\* calculateClusterBounds(cluster) on the nodes from one of them on
ClusterBoundsCall ==
    \E a \in 1..Len(cNodes) :
        LET cluster == SubSeq(cNodes, a, Len(cNodes))
            heap == BoundsHeap(cluster, [pos |-> cPos, links |-> cLinks])
        IN  /\ lastCall' = [fn |-> "calculateClusterBounds",
                            result |-> calculateClusterBounds(cluster, cPos)]
            /\ cPos' = heap.pos
            /\ cLinks' = heap.links
            /\ UNCHANGED <<cNodes, visited, callLog, detectCalls, cosVars, appVars, extVars>>

BoundsCall ==
    \E cluster \in KnownClusters :
        LET heap == BoundsHeap(cluster, [pos |-> cPos, links |-> cLinks])
        IN  /\ lastCall' = [fn |-> "calculateClusterBounds",
                            result |-> calculateClusterBounds(cluster, cPos)]
            /\ cPos' = heap.pos
            /\ cLinks' = heap.links
            /\ UNCHANGED <<cNodes, visited, callLog, detectCalls, cosVars, appVars, extVars>>

ShapeCall ==
    \E cluster \in KnownClusters :
        LET bounds == calculateClusterBounds(cluster, cPos)
            heap == ShapeHeap(bounds, [pos |-> cPos, links |-> cLinks])
        IN  /\ lastCall' = [fn |-> "generateFusionShape",
                            result |-> generateFusionShape(bounds, artRandom[1])]
            /\ cPos' = heap.pos
            /\ cLinks' = heap.links
            /\ UNCHANGED <<cNodes, visited, callLog, detectCalls, cosVars, appVars, extVars>>

RenderCall ==
    \E th \in ClusterThresholds :
        LET heap == RenderHeap(cNodes, cLinks, th, [pos |-> cPos, links |-> cLinks])
        IN  /\ lastCall' = [fn |-> "renderClusters",
                            result |-> renderClusters(cNodes, cLinks, th, cPos, artRandom[1])]
            /\ cPos' = heap.pos
            /\ cLinks' = heap.links
            /\ UNCHANGED <<cNodes, visited, callLog, detectCalls, cosVars, appVars, extVars>>

----------------------------------------------------------------------------
(* SubjectivityExtractor.  A text is a sequence of lower-case tokens        *)
(* (words and the marks ".", "!", "?"): it stands for the string of its     *)
(* tokens joined by single spaces.  The vocabulary holds no token that      *)
(* contains an indicator as a part of a longer word, so a regular           *)
(* expression matches where the indicator's tokens stand in the sequence.   *)
(* Scores are exact fractions; vector components are in hundredths.         *)

\* num / den in lowest terms, den > 0
Frac(n, d) == LET g == Gcd(Abs(n), d) IN [num |-> n \div g, den |-> d \div g]
FracLT(a, b) == a.num * b.den < b.num * a.den
FracLE(a, b) == a.num * b.den <= b.num * a.den
FracAdd(a, b) == Frac(a.num * b.den + b.num * a.den, a.den * b.den)
FracMul(a, b) == Frac(a.num * b.num, a.den * b.den)
\* Math.min(a, b), Math.max(a, b)
FracMin(a, b) == IF FracLT(b, a) THEN b ELSE a
FracMax(a, b) == IF FracLT(a, b) THEN b ELSE a
FracOne == Frac(1, 1)
Half == Frac(1, 2)

\* the vocabulary of the texts and the number of characters of a token
Marks == {".", "!", "?"}
Words == {"i", "think", "was", "am", "like", "will", "maybe", "yeah", "love",
          "suppose", "however"}
Tokens == Words \cup Marks
TokenLength(w) ==
    CASE w \in Marks \cup {"i"} -> 1
      [] w = "am" -> 2
      [] w = "was" -> 3
      [] w \in {"like", "will", "yeah", "love"} -> 4
      [] w \in {"think", "maybe"} -> 5
      [] w \in {"suppose", "however"} -> 7

\* the indicator stands in the text at token k
MatchAt(text, k, indicator) ==
    /\ k + Len(indicator) - 1 <= Len(text)
    /\ SubSeq(text, k, k + Len(indicator) - 1) = indicator
\* indicators.reduce((sum, indicator) => sum + (lowerText.match(...) || []).length, 0)
CountIndicators(text, indicators) ==
    Cardinality({m \in indicators \X (1..Len(text)) : MatchAt(text, m[2], m[1])})
\* the same for indicators that end in a space ('i ', 'me ', 'my '): a token
\* has to follow
CountFollowed(text, indicators) ==
    Cardinality({m \in indicators \X (1..Len(text)) :
                    MatchAt(text, m[2], m[1]) /\ m[2] + Len(m[1]) - 1 < Len(text)})
\* (text.match(/!/g) || []).length and the like
CountMark(text, mark) == Cardinality({k \in 1..Len(text) : text[k] = mark})

\* text.split(/[.!?]/).filter(s => s.trim().length > 0).map(s => s.length),
\* from token a on: a piece keeps the spaces that part it from the marks
RECURSIVE SentenceLengths(_, _)
SentenceLengths(text, a) ==
    IF a > Len(text) THEN <<>>
    ELSE IF text[a] \in Marks THEN SentenceLengths(text, a + 1)
    ELSE LET b == CHOOSE e \in a..Len(text) :
                      /\ \A k \in a..e : text[k] \notin Marks
                      /\ e = Len(text) \/ text[e + 1] \in Marks
             chars == SumOver([k \in 1..(b - a + 1) |-> TokenLength(text[a + k - 1])],
                              b - a + 1)
             length == chars + (b - a) + (IF a > 1 THEN 1 ELSE 0)
                             + (IF b < Len(text) THEN 1 ELSE 0)
         IN  <<length>> \o SentenceLengths(text, b + 1)
\* text.toLowerCase().match(/\b\w+\b/g) || []
WordsOf(text) == SelectSeq(text, LAMBDA w : w \notin Marks)
\* uniqueWords.size / Math.max(1, words.length)
LexicalDiversity(text) ==
    LET words == WordsOf(text)
    IN  Frac(Cardinality({words[k] : k \in 1..Len(words)}), Max(1, Len(words)))
\* sum of (len - avg)^2 over the lengths, times count^2
SpreadOf(lengths) ==
    LET count == Len(lengths)
        s1 == SumOver(lengths, count)
        s2 == SumOver([k \in 1..count |-> lengths[k] * lengths[k]], count)
    IN  count * count * s2 - count * s1 * s1

\* Object.keys(scores).find(key => scores[key] === maxScore): keys is the
\* sequence of the categories in the order of declaration
RECURSIVE FindKey(_, _, _, _)
FindKey(keys, counts, maxCount, k) ==
    IF counts[k] = maxCount THEN keys[k] ELSE FindKey(keys, counts, maxCount, k + 1)
\* the tail common to analyzeNarrativeStyle, analyzeTemporalOrientation and
\* analyzeAuthenticity: scores, maxScore, dominant key
Dominant(keys, counts) ==
    LET total == SumOver(counts, Len(counts))
        maxCount == MaxOver(counts, Len(counts))
    IN  [key |-> FindKey(keys, counts, maxCount, 1),
         score |-> Frac(maxCount, total),
         distribution |-> [k \in 1..Len(keys) |-> Frac(counts[k], total)]]

NarrativeDirect ==
    {<<"i", "said">>, <<"i", "did">>, <<"i", "went">>, <<"i", "was">>, <<"i", "am">>}
NarrativeReflective ==
    {<<"i", "think">>, <<"i", "feel">>, <<"i", "believe">>, <<"i", "realize">>,
     <<"i", "understand">>, <<"reflection">>, <<"looking", "back">>}
NarrativeMetaphorical ==
    {<<"like">>, <<"as", "if">>, <<"as", "though">>, <<"metaphor">>, <<"symbol">>}
NarrativeConversational ==
    {<<"you", "know">>, <<"i", "mean">>, <<"like", "i", "said">>,
     <<"you", "know", "what">>, <<"sayin">>}
NarrativeCounts(text) ==
    <<CountIndicators(text, NarrativeDirect), CountIndicators(text, NarrativeReflective),
      CountIndicators(text, NarrativeMetaphorical),
      CountIndicators(text, NarrativeConversational)>>
NarrativeKeys == <<"direct", "reflective", "metaphorical", "conversational">>
\* analyzeNarrativeStyle(text)
analyzeNarrativeStyle(text) ==
    IF text = <<>> THEN [type |-> "conversational", score |-> Half]
    ELSE LET counts == NarrativeCounts(text)
             d == Dominant(NarrativeKeys, counts)
         IN  IF SumOver(counts, Len(counts)) = 0
             THEN [type |-> "conversational", score |-> Half]
             ELSE [type |-> d.key, score |-> d.score, distribution |-> d.distribution]

IntenseEmotions ==
    {<<"love">>, <<"hate">>, <<"terrible">>, <<"amazing">>, <<"devastated">>,
     <<"ecstatic">>, <<"horrible">>, <<"wonderful">>}
ModerateEmotions ==
    {<<"happy">>, <<"sad">>, <<"angry">>, <<"worried">>, <<"excited">>, <<"disappointed">>}
ReservedEmotions == {<<"okay">>, <<"fine">>, <<"alright">>, <<"good">>, <<"bad">>}
\* Math.max(...vector)
RECURSIVE MaxOf(_, _)
MaxOf(vector, k) == IF k = 1 THEN vector[1] ELSE Max(vector[k], MaxOf(vector, k - 1))
\* analyzeEmotionalExpression(text, emotion); no token of the vocabulary has
\* a character three times in a row, so repetitionPattern is 0
analyzeEmotionalExpression(text, emotion) ==
    IF text = <<>> THEN [level |-> "moderate", intensity |-> Half]
    ELSE LET intenseCount == CountIndicators(text, IntenseEmotions)
             moderateCount == CountIndicators(text, ModerateEmotions)
             reservedCount == CountIndicators(text, ReservedEmotions)
             emotionIntensity == IF Len(emotion) > 0
                                 THEN Frac(MaxOf(emotion, Len(emotion)), 100) ELSE Half
             exclamationCount == CountMark(text, "!")
             repetitionPattern == 0
             totalIndicators ==
                 Frac(30 * intenseCount + 20 * moderateCount + 10 * reservedCount
                          + 5 * exclamationCount + 3 * repetitionPattern, 10)
             normalizedIntensity ==
                 FracMin(FracOne, FracAdd(FracMul(totalIndicators, Frac(1, 20)),
                                          FracMul(emotionIntensity, Half)))
         IN  [level |-> IF FracLT(normalizedIntensity, Frac(3, 10)) THEN "reserved"
                        ELSE IF FracLT(normalizedIntensity, Frac(6, 10)) THEN "moderate"
                        ELSE IF FracLT(normalizedIntensity, Frac(8, 10)) THEN "expressive"
                        ELSE "intense",
              intensity |-> normalizedIntensity]

PastIndicators ==
    {<<"was">>, <<"were">>, <<"had">>, <<"went">>, <<"did">>, <<"said">>, <<"thought">>,
     <<"felt">>, <<"used", "to">>, <<"before">>, <<"ago">>, <<"back", "then">>}
PresentIndicators ==
    {<<"am">>, <<"is">>, <<"are">>, <<"do">>, <<"have">>, <<"now">>, <<"currently">>,
     <<"today">>, <<"right", "now">>}
FutureIndicators ==
    {<<"will">>, <<"going", "to">>, <<"gonna">>, <<"future">>, <<"later">>, <<"soon">>,
     <<"hope">>, <<"plan">>, <<"want", "to">>}
TemporalCounts(text) ==
    <<CountIndicators(text, PastIndicators), CountIndicators(text, PresentIndicators),
      CountIndicators(text, FutureIndicators)>>
TemporalKeys == <<"past", "present", "future">>
\* analyzeTemporalOrientation(text)
analyzeTemporalOrientation(text) ==
    IF text = <<>> THEN [orientation |-> "mixed", score |-> Frac(33, 100)]
    ELSE LET counts == TemporalCounts(text)
             d == Dominant(TemporalKeys, counts)
         IN  IF SumOver(counts, Len(counts)) = 0
             THEN [orientation |-> "mixed", score |-> Frac(33, 100)]
             ELSE [orientation |-> IF d.key = "past" THEN "past_focused"
                                   ELSE IF d.key = "present" THEN "present_focused"
                                   ELSE IF d.key = "future" THEN "future_focused"
                                   ELSE "mixed",
                   score |-> d.score, distribution |-> d.distribution]

\* 'i ', 'me ', 'my ' need a token after them; "i'" , 'myself', 'mine' do not
FirstPersonFollowed == {<<"i">>, <<"me">>, <<"my">>}
FirstPersonPlain == {<<"i'">>, <<"myself">>, <<"mine">>}
\* analyzeSelfReference without its first line; ''.split(/\s+/) is ['']
analyzeSelfReference_noGuard(text) ==
    LET firstPersonCount == CountFollowed(text, FirstPersonFollowed)
                                + CountIndicators(text, FirstPersonPlain)
        wordCount == Max(1, Len(text))
        normalizedScore == FracMin(FracOne, Frac(10 * firstPersonCount, wordCount))
    IN  [level |-> IF FracLT(normalizedScore, Frac(3, 10)) THEN "low"
                   ELSE IF FracLT(normalizedScore, Frac(6, 10)) THEN "medium"
                   ELSE "high",
         score |-> normalizedScore]
\* analyzeSelfReference(text); wordCount = text.split(/\s+/).length
analyzeSelfReference(text) ==
    IF text = <<>> THEN [level |-> "medium", score |-> Half]
    ELSE LET firstPersonCount == CountFollowed(text, FirstPersonFollowed)
                                     + CountIndicators(text, FirstPersonPlain)
             wordCount == Len(text)
             normalizedScore == FracMin(FracOne, Frac(10 * firstPersonCount, wordCount))
         IN  [level |-> IF FracLT(normalizedScore, Frac(3, 10)) THEN "low"
                        ELSE IF FracLT(normalizedScore, Frac(6, 10)) THEN "medium"
                        ELSE "high",
              score |-> normalizedScore]

\* analyzeComplexity(text, semantic)
analyzeComplexity(text, semantic) ==
    IF text = <<>> THEN [level |-> "moderate", score |-> Half]
    ELSE LET sentences == SentenceLengths(text, 1)
             count == Len(sentences)
             avgSentenceLength == IF count > 0 THEN Frac(SumOver(sentences, count), count)
                                  ELSE Frac(50, 1)
             sentenceVariance == IF count > 1
                                 THEN Frac(SpreadOf(sentences), count * count * count)
                                 ELSE Frac(0, 1)
             diversity == LexicalDiversity(text)
             head == SubSeq(semantic, 1, Min(20, Len(semantic)))
             semanticComplexity ==
                 IF Len(semantic) > 0
                 THEN Frac(SumOver([k \in 1..Len(head) |-> Abs(head[k])], Len(head)), 2000)
                 ELSE Half
             complexityScore ==
                 FracAdd(FracAdd(FracMul(FracMin(FracOne, FracMul(avgSentenceLength, Frac(1, 100))),
                                         Frac(3, 10)),
                                 FracMul(FracMin(FracOne, FracMul(sentenceVariance, Frac(1, 1000))),
                                         Frac(2, 10))),
                         FracAdd(FracMul(diversity, Frac(3, 10)),
                                 FracMul(semanticComplexity, Frac(2, 10))))
         IN  [level |-> IF FracLT(complexityScore, Frac(4, 10)) THEN "simple"
                        ELSE IF FracLT(complexityScore, Frac(7, 10)) THEN "moderate"
                        ELSE "complex",
              score |-> complexityScore]

FormalIndicators ==
    {<<"therefore">>, <<"however">>, <<"furthermore">>, <<"moreover">>,
     <<"consequently">>, <<"nevertheless">>}
CasualIndicators ==
    {<<"gonna">>, <<"wanna">>, <<"gotta">>, <<"yeah">>, <<"yep">>, <<"nah">>,
     <<"ain't">>, <<"don't">>, <<"can't">>}
IntimateIndicators ==
    {<<"i", "feel">>, <<"i", "think">>, <<"for", "me">>, <<"personally">>,
     <<"my", "heart">>, <<"my", "soul">>, <<"deeply">>}
AuthenticityCounts(text) ==
    <<CountIndicators(text, FormalIndicators), CountIndicators(text, CasualIndicators),
      CountIndicators(text, IntimateIndicators)>>
AuthenticityKeys == <<"formal", "casual", "intimate">>
\* analyzeAuthenticity(text)
analyzeAuthenticity(text) ==
    IF text = <<>> THEN [style |-> "casual", score |-> Half]
    ELSE LET counts == AuthenticityCounts(text)
             d == Dominant(AuthenticityKeys, counts)
         IN  IF SumOver(counts, Len(counts)) = 0
             THEN [style |-> "casual", score |-> Half]
             ELSE [style |-> d.key, score |-> d.score, distribution |-> d.distribution]

\* analyzeRhythm(text): variance / (avgLength * avgLength), at most 1
analyzeRhythm(text) ==
    IF text = <<>> THEN Half
    ELSE LET sentenceLengths == SentenceLengths(text, 1)
             count == Len(sentenceLengths)
             total == SumOver(sentenceLengths, count)
         IN  IF count < 2 THEN Half
             ELSE FracMin(FracOne, Frac(SpreadOf(sentenceLengths), count * total * total))

ReflectionIndicators ==
    {<<"reflect">>, <<"think", "about">>, <<"realize">>, <<"understand">>, <<"learn">>,
     <<"realized">>, <<"understood">>, <<"learned">>, <<"came", "to", "understand">>,
     <<"looking", "back">>, <<"in", "retrospect">>, <<"now", "i", "see">>,
     <<"i", "see", "now">>}
ConditionalIndicators == {<<"if">>, <<"whether">>, <<"what", "if">>, <<"suppose">>}
\* (lowerText.match(/\b(if|whether|what if|suppose)\b/g) || []).length: one
\* regular expression, so a match does not start inside an earlier match
CountAlternation(text, alternatives) ==
    LET starts == {k \in 1..Len(text) : \E p \in alternatives : MatchAt(text, k, p)}
        inside(k) == \E j \in starts : \E p \in alternatives :
                        j < k /\ MatchAt(text, j, p) /\ k <= j + Len(p) - 1
    IN  Cardinality({k \in starts : ~inside(k)})
\* analyzeReflectionDepth(text)
analyzeReflectionDepth(text) ==
    IF text = <<>> THEN Half
    ELSE LET reflectionCount == CountIndicators(text, ReflectionIndicators)
             questionCount == CountMark(text, "?")
             conditionalCount == CountAlternation(text, ConditionalIndicators)
             wordCount == Len(text)
         IN  FracMin(FracOne,
                     Frac((4 * reflectionCount + questionCount + 2 * conditionalCount) * 25,
                          wordCount))

ExpressionDirect ==
    {<<"i", "said">>, <<"i", "told">>, <<"i", "think">>, <<"i", "believe">>,
     <<"i", "feel">>, <<"i", "know">>}
ExpressionIndirect ==
    {<<"like">>, <<"as", "if">>, <<"seems">>, <<"appears">>, <<"maybe">>, <<"perhaps">>,
     <<"might">>, <<"could">>}
ExpressionCounts(text) ==
    <<CountIndicators(text, ExpressionDirect), CountIndicators(text, ExpressionIndirect)>>
\* analyzeExpressionMode(text)
analyzeExpressionMode(text) ==
    IF text = <<>> THEN [mode |-> "direct", score |-> Half]
    ELSE LET directCount == ExpressionCounts(text)[1]
             indirectCount == ExpressionCounts(text)[2]
             total == directCount + indirectCount
             directScore == Frac(directCount, total)
         IN  IF total = 0 THEN [mode |-> "direct", score |-> Half]
             ELSE [mode |-> IF FracLT(Frac(6, 10), directScore) THEN "direct" ELSE "indirect",
                   score |-> directScore]

\* the largest r with r * r <= n, for lo * lo <= n < (hi + 1) * (hi + 1)
RECURSIVE IntSqrt(_, _, _)
IntSqrt(n, lo, hi) ==
    IF lo >= hi THEN lo
    ELSE LET mid == (lo + hi + 1) \div 2
         IN  IF mid * mid <= n THEN IntSqrt(n, mid, hi) ELSE IntSqrt(n, lo, mid - 1)
\* calculateVariance(vector): Math.min(1, stdDev / 0.3), with the square root
\* rounded down to ten-thousandths
calculateVariance(vector) ==
    IF Len(vector) = 0 THEN Half
    ELSE LET count == Len(vector)
             s1 == SumOver(vector, count)
             s2 == SumOver([k \in 1..count |-> vector[k] * vector[k]], count)
             root == IntSqrt((count * s2 - s1 * s1) * 10000, 0, 46340)
         IN  FracMin(FracOne, Frac(root, 3000 * count))
\* calculateUniqueness(text, semantic, emotion)
calculateUniqueness(text, semantic, emotion) ==
    LET semanticVariance == IF Len(semantic) > 0 THEN calculateVariance(semantic) ELSE Half
        emotionVariance == IF Len(emotion) > 0 THEN calculateVariance(emotion) ELSE Half
        lexicalDiversity == LexicalDiversity(text)
        uniqueness == FracAdd(FracMul(semanticVariance, Frac(4, 10)),
                              FracAdd(FracMul(emotionVariance, Frac(3, 10)),
                                      FracMul(lexicalDiversity, Frac(3, 10))))
    IN  FracMin(FracOne, FracMax(Frac(0, 1), uniqueness))

\* a || b on strings and arrays kept as [def, v]: '' is falsy, [] is not
TextOr(a, b) == IF a.def /\ a.v # <<>> THEN a.v ELSE b
ArrayOr(a, b) == IF a.def THEN a.v ELSE b
\* node.isotype_signature?.semantic and ?.emotion
OptionalField(node, field) ==
    IF node.isotype_signature.def THEN node.isotype_signature.v[field] ELSE Undefined
\* extractSubjectivity(node) on a node object
Profile(node) ==
    LET text == TextOr(node.text_content, <<>>)
        semantic == ArrayOr(OptionalField(node, "semantic"), <<>>)
        emotion == ArrayOr(OptionalField(node, "emotion"), <<>>)
    IN  [narrative_style |-> analyzeNarrativeStyle(text),
         emotional_expression |-> analyzeEmotionalExpression(text, emotion),
         temporal_orientation |-> analyzeTemporalOrientation(text),
         self_reference |-> analyzeSelfReference(text),
         complexity |-> analyzeComplexity(text, semantic),
         authenticity |-> analyzeAuthenticity(text),
         rhythm |-> analyzeRhythm(text),
         reflection_depth |-> analyzeReflectionDepth(text),
         expression_mode |-> analyzeExpressionMode(text),
         uniqueness |-> calculateUniqueness(text, semantic, emotion)]
\* extractSubjectivity(node): node.text_content throws when node is undefined
extractSubjectivity(node) == IF node.def THEN Profile(node.v) ELSE TypeError

----------------------------------------------------------------------------
(* IsotypeRenderer: calculateShapeDeformation, calculateColorAdjustment and *)
(* generateUnifiedShape.  Scores and intensities are kept in hundredths.    *)

\* calculateShapeDeformation(subjectivity): regularity and deformation in
\* hundredths, asymmetry = intensity * 0.15 in ten-thousandths
calculateShapeDeformation(subjectivity) ==
    LET type == subjectivity.narrative_style.type
        level == subjectivity.emotional_expression.level
    IN  [regularity |-> IF type = "reflective" THEN 60
                        ELSE IF type = "metaphorical" THEN 50
                        ELSE IF type = "direct" THEN 90
                        ELSE 80,
         deformation |-> IF level = "intense" THEN 25
                         ELSE IF level = "expressive" THEN 18
                         ELSE IF level = "reserved" THEN 5
                         ELSE 10,
         asymmetry |-> subjectivity.emotional_expression.intensity * 15]

\* a brightness that follows the intensity, as DataLoader.adjustColorIntensity has
Brightness_byIntensity(intensity) == 90 + ((intensity * 20) \div 100)
\* const brightness = 1.0, in hundredths
Brightness(intensity) == 100

\* calculateColorAdjustment(subjectivity): saturation, hueShift and brightness
\* in hundredths, opacity = 0.7 + intensity * 0.25 in ten-thousandths
calculateColorAdjustment(subjectivity) ==
    LET emotionalExpression == subjectivity.emotional_expression
        saturation == 100
        hueShift == 0
        opacity == 7000 + emotionalExpression.intensity * 25
        brightness == Brightness(emotionalExpression.intensity)
    IN  [saturation |-> saturation,
         hueShift |-> hueShift,
         opacity |-> Min(10000, opacity),
         brightness |-> Min(110, brightness)]

\* a generateUnifiedShape that adds the instance's noise to a point
ShapeJitter_noise(rand, i) == noiseTableAt(rand, i)
\* generateUnifiedShape reads this.emotiveArt nowhere: nothing of the
\* instance is added to a point
ShapeJitter(rand, i) == 0

\* point i of generateUnifiedShape.  distance = radius * scale / 200000000 with
\* scale = 200000000 * (1 + regularityNoise + deformationNoise + asymmetryNoise);
\* the point is (x + cos(angle) * distance, y + sin(angle) * distance) and its
\* angle 2 * pi * i / 32 is kept as i
UnifiedPoint(x, y, radius, deformation, rand, i) ==
    LET regularityNoise == TwoSin(4 * i) * (100 - deformation.regularity) * 10
        deformationNoise == TwoSin(3 * i + 4) * deformation.deformation * 100
        asymmetryNoise == TwoSin(2 * i) * deformation.asymmetry
        scale == 200000000 + regularityNoise + deformationNoise + asymmetryNoise
                     + ShapeJitter(rand, i)
    IN  [x |-> [from |-> x, twoCos |-> TwoCos[i + 1], radius |-> radius, scale |-> scale],
         y |-> [from |-> y, twoSin |-> TwoSin(i), radius |-> radius, scale |-> scale],
         angle |-> i]

\* the loop of generateUnifiedShape from point i on: points.push(...)
RECURSIVE UnifiedPoints(_, _, _, _, _, _, _, _)
UnifiedPoints(x, y, radius, deformation, rand, i, numPoints, points) ==
    IF i >= numPoints THEN points
    ELSE UnifiedPoints(x, y, radius, deformation, rand, i + 1, numPoints,
                       Append(points, UnifiedPoint(x, y, radius, deformation, rand, i)))

\* generateUnifiedShape(x, y, radius, signature) of the renderer whose
\* EmotiveArt drew rand
generateUnifiedShape(x, y, radius, signature, rand) ==
    UnifiedPoints(x, y, radius, signature.shapeDeformation, rand, 0, ShapePoints, <<>>)

----------------------------------------------------------------------------
(* GroupIsotypeRenderer: selectDiverseSamples, renderSizeEncoding and       *)
(* renderGroups, with IsotypeRenderer.calculateBaseSize.  A sample is a     *)
(* node: `id` and `original_id` are "" when absent, `uniqueness` is the     *)
(* uniqueness_score in hundredths and `text_length` the metadata            *)
(* text_length, 0 when absent; `color` is "" when absent.  The samples have *)
(* no emotion vector.  A selection is a sequence of indices into `samples`. *)

\* sample.id || sample.original_id; "" stands for undefined
SampleKey(sample) == IF sample.id # "" THEN sample.id ELSE sample.original_id
\* colorDistance(color1, color2) of colours that are equal or not of the
\* form #rrggbb: 0, or NaN as parseInt of a missing digit pair is NaN
colorDistance(color1, color2) ==
    IF color1 = "#fff" \/ color2 = "#fff" THEN [nan |-> TRUE, v |-> 0]
    ELSE [nan |-> FALSE, v |-> 0]
\* calculateSampleDistance(sample1, sample2), in hundredths
calculateSampleDistance(sample1, sample2) ==
    LET color1 == IF sample1.color # "" THEN sample1.color ELSE "#000000"
        color2 == IF sample2.color # "" THEN sample2.color ELSE "#000000"
        c == colorDistance(color1, color2)
    IN  [nan |-> c.nan, v |-> Abs(sample1.uniqueness - sample2.uniqueness) + c.v]
\* Math.min(minDist, dist), minDist starting at Infinity
RECURSIVE MinDistance(_, _, _, _)
MinDistance(samples, j, selected, k) ==
    IF k = 0 THEN [nan |-> FALSE, inf |-> TRUE, v |-> 0]
    ELSE LET rest == MinDistance(samples, j, selected, k - 1)
             dist == calculateSampleDistance(samples[j], samples[selected[k]])
         IN  IF rest.nan \/ dist.nan THEN [nan |-> TRUE, inf |-> FALSE, v |-> 0]
             ELSE IF rest.inf \/ dist.v < rest.v THEN [nan |-> FALSE, inf |-> FALSE, v |-> dist.v]
             ELSE rest
\* Math.floor(Math.random() * length) for the k-th draw of rnd, as an index
\* from 1
RandomPick(rnd, k, length) == ((rnd.base + k * rnd.step) % length) + 1

\* the samples.forEach of the 'representative' case: bestCandidate after the
\* samples 1..j, or 0 for null; maxDistance starts at -1
RECURSIVE BestCandidate(_, _, _, _)
BestCandidate(samples, selected, used, j) ==
    IF j = 0 THEN [best |-> 0, maxDistance |-> -1]
    ELSE LET before == BestCandidate(samples, selected, used, j - 1)
             minDist == MinDistance(samples, j, selected, Len(selected))
         IN  IF SampleKey(samples[j]) \in used THEN before
             ELSE IF ~minDist.nan /\ (minDist.inf \/ minDist.v > before.maxDistance)
                  THEN [best |-> j, maxDistance |-> minDist.v]
             ELSE before
\* the while loop of the 'representative' case; draw counts the random draws
RECURSIVE Representative(_, _, _, _, _, _)
Representative(samples, count, rnd, selected, used, draw) ==
    IF Len(selected) >= count THEN selected
    ELSE LET best == BestCandidate(samples, selected, used, Len(samples)).best
             remaining == SelectSeq([j \in 1..Len(samples) |-> j],
                                    LAMBDA j : SampleKey(samples[j]) \notin used)
             random == remaining[RandomPick(rnd, draw, Len(remaining))]
         IN  IF best # 0
             THEN Representative(samples, count, rnd, Append(selected, best),
                                 used \cup {SampleKey(samples[best])}, draw)
             ELSE IF Len(remaining) > 0
             THEN Representative(samples, count, rnd, Append(selected, random),
                                 used \cup {SampleKey(samples[random])}, draw + 1)
             ELSE selected
\* [...samples].sort((a, b) => scoreA - scoreB): stable, ascending
RECURSIVE SortedByScore(_, _)
SortedByScore(samples, k) ==
    IF k = 0 THEN <<>>
    ELSE LET before == SortedByScore(samples, k - 1)
             at == Cardinality({i \in 1..Len(before) :
                                   samples[before[i]].uniqueness <= samples[k].uniqueness})
         IN  SubSeq(before, 1, at) \o <<k>> \o SubSeq(before, at + 1, Len(before))
\* while (result.length < count) result.push(samples[random index])
RECURSIVE PadSamples(_, _, _, _, _)
PadSamples(result, length, count, rnd, draw) ==
    IF Len(result) >= count THEN result
    ELSE PadSamples(Append(result, RandomPick(rnd, draw, length)), length, count, rnd,
                    draw + 1)
\* selectDiverseSamples(samples, count, method); rnd.order is the order the
\* sort with a random comparator leaves, rnd.base and rnd.step give the draws
selectDiverseSamples(samples, count, method, rnd) ==
    LET length == Len(samples)
        all == [j \in 1..length |-> j]
    IN  IF length = 0 THEN <<>>
        ELSE IF length <= count
        THEN SubSeq(PadSamples(all, length, count, rnd, 0), 1, count)
        ELSE IF method = "stratified"
        THEN [i \in 1..count |->
                 SortedByScore(samples, length)[(((i - 1) * length) \div count) + 1]]
        ELSE IF method = "representative"
        THEN LET current == RandomPick(rnd, 0, length)
             IN  Representative(samples, count, rnd, <<current>>,
                                {SampleKey(samples[current])}, 1)
        ELSE SubSeq(rnd.order, 1, count)

\* calculateBaseSize(node): 10 + (uniqueness * 0.5 + normalizedLength * 0.5) * 15
calculateBaseSize(node) ==
    LET uniqueness == IF node.uniqueness # 0 THEN Frac(node.uniqueness, 100) ELSE Half
        textLength == IF node.text_length # 0 THEN node.text_length ELSE 1000
        normalizedLength == FracMin(FracOne, Frac(textLength, 5000))
    IN  FracAdd(Frac(10, 1),
                FracMul(FracAdd(FracMul(uniqueness, Half), FracMul(normalizedLength, Half)),
                        Frac(15, 1)))
\* the radius renderIsotype(node, x, y, false) draws with: signature.baseSize,
\* which generateIsotypeSignature takes from calculateBaseSize(node)
DisplaySize(node) == calculateBaseSize(node)

\* renderSizeEncoding(label, count, samples, allGroups, ...): the glyphs
\* drawn, each [sample, size, radius]: size is what visual_properties.size
\* holds during renderIsotype, radius what renderIsotype draws with
renderSizeEncoding(count, samples, counts, method, rnd) ==
    LET maxCount == MaxOver(counts, Len(counts))
        mainSize == FracMul(Frac(15, 1), FracAdd(Half, FracMul(Frac(count, maxCount), Half)))
        numGlyphs == Min(5, Max(3, (count + 29) \div 30))
        diverseSamples == selectDiverseSamples(samples, numGlyphs, method, rnd)
    IN  [i \in 1..Len(diverseSamples) |->
            LET sizeVariation == FracAdd(Frac(8, 10), FracMul(Frac(i - 1, numGlyphs), Frac(4, 10)))
                glyphSize == FracMul(mainSize, sizeVariation)
                sample == [samples[diverseSamples[i]] EXCEPT !.size = glyphSize]
            IN  [sample |-> diverseSamples[i], size |-> glyphSize,
                 radius |-> DisplaySize(sample)]]
\* renderGroups(groups, {encoding: 'size', diversityMethod: method}): the
\* glyphs drawn, group by group
renderGroups(groups, method, rnd) ==
    [g \in 1..Len(groups) |->
        renderSizeEncoding(groups[g].count, groups[g].samples,
                           [k \in 1..Len(groups) |-> groups[k].count], method, rnd)]

----------------------------------------------------------------------------
(* EmotiveArt instances: construction, smoothNoise and generateFusionShape *)

NoArtCall == [fn |-> "none", args |-> <<>>, result |-> <<>>]
\* points of the circle of radius 2 that generateFusionShape samples
NoisePoints == {<<TwoCos[i + 1], TwoSin(i)>> : i \in {0, 4, 16}}
NoiseSeeds == {0, 3}
NoiseOctaves == {FusionOctaves, DefaultOctaves}
\* bounds of clusters of placed and unplaced nodes; the second has radius 0
ShapeBounds ==
    {calculateClusterBounds(c, Layout(3)) : c \in {<<2, 3>>, <<1>>, <<1, 2, 3>>}}

InitArt == artRandom = <<>> /\ artPrev = NoArtCall /\ artCall = NoArtCall

\* new EmotiveArt(): the constructor fills the table, drawing Math.random()
ConstructArt ==
    /\ Len(artRandom) < MaxInstances
    /\ \E rand \in RandomDraws : artRandom' = Append(artRandom, rand)
    /\ UNCHANGED <<artPrev, artCall, nonArtVars>>

\* smoothNoise(x, y, seed, octaves) on one of the instances
NoiseCall ==
    /\ \E k \in 1..Len(artRandom) :
       \E pt \in NoisePoints : \E seed \in NoiseSeeds : \E octaves \in NoiseOctaves :
          artCall' = [fn |-> "smoothNoise", args |-> <<pt[1], pt[2], seed, octaves>>,
                      result |-> smoothNoise(pt[1], pt[2], seed, octaves, artRandom[k])]
    /\ artPrev' = artCall
    /\ UNCHANGED <<artRandom, nonArtVars>>

\* generateFusionShape(bounds) on the ClusterFusion that holds one of the instances
FusionShapeCall ==
    /\ \E k \in 1..Len(artRandom) : \E bounds \in ShapeBounds :
          artCall' = [fn |-> "generateFusionShape", args |-> <<bounds>>,
                      result |-> generateFusionShape(bounds, artRandom[k]).points]
    /\ artPrev' = artCall
    /\ UNCHANGED <<artRandom, nonArtVars>>

\* profiles as extractSubjectivity returns them, as far as the renderer
\* reads them here
GlyphProfile(type, level, intensity) ==
    [narrative_style |-> [type |-> type],
     emotional_expression |-> [level |-> level, intensity |-> intensity]]
GlyphProfiles ==
    {GlyphProfile("descriptive", "moderate", 50), GlyphProfile("reflective", "intense", 100),
     GlyphProfile("direct", "reserved", 0), GlyphProfile("metaphorical", "expressive", 70)}
GlyphCenters == {<<0, 0>>, <<30, -20>>}
GlyphRadii == {0, 13}

\* generateUnifiedShape(x, y, radius, signature) on one of the renderers; each
\* holds the EmotiveArt its constructor made
UnifiedShapeCall ==
    /\ \E k \in 1..Len(artRandom) :
       \E c \in GlyphCenters : \E radius \in GlyphRadii : \E subjectivity \in GlyphProfiles :
          LET signature == [shapeDeformation |-> calculateShapeDeformation(subjectivity)]
          IN  artCall' = [fn |-> "generateUnifiedShape",
                          args |-> <<c[1], c[2], radius, signature>>,
                          result |-> generateUnifiedShape(c[1], c[2], radius, signature,
                                                          artRandom[k])]
    /\ artPrev' = artCall
    /\ UNCHANGED <<artRandom, nonArtVars>>

\* profiles that differ in the intensity and, pairwise, in another field
ColorProfiles ==
    {GlyphProfile(type, "moderate", intensity) :
        type \in {"descriptive", "direct"}, intensity \in {0, 25, 50, 100}}

\* calculateColorAdjustment(subjectivity) on one of the renderers
ColorCall ==
    /\ \E k \in 1..Len(artRandom) : \E subjectivity \in ColorProfiles :
          artCall' = [fn |-> "calculateColorAdjustment", args |-> <<subjectivity>>,
                      result |-> calculateColorAdjustment(subjectivity)]
    /\ artPrev' = artCall
    /\ UNCHANGED <<artRandom, nonArtVars>>

----------------------------------------------------------------------------
(* SubjectivityExtractor calls *)

\* the texts of at most n tokens
TextsUpTo(n) == UNION {[1..k -> Tokens] : k \in 0..n}
\* node.isotype_signature: absent, without the two vectors, with empty
\* vectors, with short vectors, with a semantic vector of a large component
SubjSignature(semantic, emotion) == Vec([semantic |-> semantic, emotion |-> emotion])
SubjSignatures ==
    {Undefined, SubjSignature(Undefined, Undefined), SubjSignature(Vec(<<>>), Vec(<<>>)),
     SubjSignature(Vec(<<30, -30>>), Vec(<<0, 100>>)),
     SubjSignature(Vec(<<8000>>), Vec(<<50>>))}
\* every signature whose vectors are absent or empty
BareSignatures ==
    {Undefined} \cup {SubjSignature(semantic, emotion) :
                         semantic \in {Undefined, Vec(<<>>)}, emotion \in {Undefined, Vec(<<>>)}}
\* node.text_content: absent, empty, or a text
SubjTexts == {Undefined} \cup {Vec(t) : t \in TextsUpTo(MaxTextLen)}
\* the nodes: every text with some signatures, and the absent and the empty
\* text with every signature; and no node at all
SubjNodes ==
    {Undefined}
    \cup {Vec(n) : n \in [text_content : SubjTexts, isotype_signature : SubjSignatures]}
    \cup {Vec(n) : n \in [text_content : {Undefined, Vec(<<>>)},
                          isotype_signature : SubjSignatures \cup BareSignatures]}

InitSubj == subjNode \in SubjNodes /\ subjProfile = NotCalled
IdleSubj == subjNode = Undefined /\ subjProfile = NotCalled

\* extractSubjectivity(node)
ExtractCall ==
    /\ subjProfile' = extractSubjectivity(subjNode)
    /\ UNCHANGED <<subjNode, coreVars, sampleVars, loadVars, lateVars>>

----------------------------------------------------------------------------
(* getSampleIndices called on its own *)

\* what Math.random() yields over count draws, as indices below n: the same
\* index each time, or consecutive indices, from the first or the last index
SampleDraws(count, n) ==
    {[k \in 1..count |-> (base + (k - 1) * step) % n] : base \in {0, n - 1}, step \in {0, 1}}
NoSample == <<-1>>

\* generateLinksOptimized is at node currentIndex of n nodes
InitSample ==
    /\ \E n \in 1..MaxSampleNodes : \E currentIndex \in 0..(n - 1) :
          sampleIn = [n |-> n, currentIndex |-> currentIndex, sampleSize |-> sampleSizeOf(n)]
    /\ sampleOut = NoSample
IdleSample ==
    sampleIn = [n |-> 0, currentIndex |-> 0, sampleSize |-> 0] /\ sampleOut = NoSample

\* this.getSampleIndices(i, sampleSize)
SampleCall ==
    /\ \E draws \in SampleDraws(RandomCount(sampleIn.currentIndex, sampleIn.sampleSize,
                                           sampleIn.n), sampleIn.n) :
          sampleOut' = getSampleIndices(sampleIn.currentIndex, sampleIn.sampleSize,
                                        sampleIn.n, draws)
    /\ UNCHANGED <<sampleIn, coreVars, subjVars, loadVars, lateVars>>

----------------------------------------------------------------------------
(* DataLoader.load.  A path is the pair <<directory, file>> that stands for   *)
(* the string directory + file; no directory contains the name of a file.   *)

AllFile == "all_participants.json"
SampleFile == "sample_participants.json"
\* const possiblePaths = [...]
possiblePaths ==
    <<<<"./data/", SampleFile>>, <<"./data/", AllFile>>,
      <<"../processed_embeddings/", SampleFile>>, <<"../processed_embeddings/", AllFile>>,
      <<"../../processed_embeddings/", SampleFile>>, <<"../../processed_embeddings/", AllFile>>,
      <<"../../processed_embeddings/", SampleFile>>, <<"../../processed_embeddings/", AllFile>>>>
\* p.includes('all_participants'), p.includes('sample_participants')
IncludesAll(path) == path[2] = AllFile
IncludesSample(path) == path[2] = SampleFile
\* the paths in the order of the list, without the preference
dataFiles_asListed == possiblePaths
\* [...possiblePaths.filter(all_participants), ...possiblePaths.filter(sample_participants)]
dataFiles == SelectSeq(possiblePaths, IncludesAll) \o SelectSeq(possiblePaths, IncludesSample)
\* [...new Set(paths)]: the first occurrence of each path, in order
RECURSIVE Distinct(_, _, _)
Distinct(paths, k, seen) ==
    IF k > Len(paths) THEN seen ELSE Distinct(paths, k + 1, SetAdd(seen, paths[k]))
uniquePaths == Distinct(dataFiles, 1, <<>>)

\* the promise of load(): pending, fulfilled with the transformed data read
\* from a path, or rejected with the Error thrown after the loop
Pending == [kind |-> "pending"]
Rejected == [kind |-> "rejected"]
Resolved(path) == [kind |-> "resolved", data |-> [transformed |-> path]]
\* what await fetch(dataFile) gives: a rejection, a response that is not ok,
\* a response that is ok
FetchOutcomes == {"network_error", "not_ok", "ok"}
\* what await response.json() and transformData give for an ok response:
\* json() rejects, transformData throws, or the transformed data
BodyOutcomes == {"bad_body", "bad_data", "data"}
\* load() awaits the body of the response fetched last
AwaitsBody == Len(loadTried) > 0 /\ loadTried[Len(loadTried)][2] = "ok"
\* the loop went through the last path without returning: throw new Error
AfterFailure == IF Len(loadTried) = Len(uniquePaths) THEN Rejected ELSE Pending

InitLoad == loadTried = <<>> /\ loadResult = Pending
IdleLoad == InitLoad

\* const response = await fetch(dataFile), for the next path of uniquePaths
FetchPath ==
    /\ loadResult = Pending /\ ~AwaitsBody
    /\ Len(loadTried) < Len(uniquePaths)
    /\ \E outcome \in FetchOutcomes :
          /\ loadTried' = Append(loadTried, <<uniquePaths[Len(loadTried) + 1], outcome>>)
          /\ loadResult' = IF outcome = "ok" THEN Pending
                           ELSE IF Len(loadTried') = Len(uniquePaths) THEN Rejected
                           ELSE Pending
    /\ UNCHANGED <<coreVars, subjVars, sampleVars, lateVars>>

\* const rawData = await response.json(); return this.transformData(rawData)
ReadBody ==
    /\ loadResult = Pending /\ AwaitsBody
    /\ \E outcome \in BodyOutcomes :
          /\ loadTried' = [loadTried EXCEPT ![Len(loadTried)][2] = outcome]
          /\ loadResult' = IF outcome = "data" THEN Resolved(loadTried[Len(loadTried)][1])
                           ELSE AfterFailure
    /\ UNCHANGED <<coreVars, subjVars, sampleVars, lateVars>>

----------------------------------------------------------------------------
(* GroupIsotypeRenderer calls *)

GroupSample(id, uniqueness, textLength, color) ==
    [id |-> id, original_id |-> "", uniqueness |-> uniqueness, text_length |-> textLength,
     color |-> color, size |-> Frac(10, 1)]
\* nodes as transformData makes them: one with a colour of three digits, one
\* without an id, three with the same id
GroupSamples ==
    {GroupSample("P1", 20, 2500, "#8B7FA8"), GroupSample("P2", 80, 5000, "#fff"),
     GroupSample("", 0, 1000, "#8B7FA8"), GroupSample("P1", 60, 4000, "#8B7FA8"),
     GroupSample("P1", 50, 0, "#8B7FA8")}
\* lists of at most n different samples
RECURSIVE SampleLists(_)
SampleLists(n) ==
    IF n = 0 THEN {<<>>}
    ELSE LET shorter == SampleLists(n - 1)
         IN  shorter \cup {Append(l, x) : l \in shorter, x \in GroupSamples}
DistinctLists(n) ==
    {l \in SampleLists(n) : \A i, j \in 1..Len(l) : i # j => l[i] # l[j]}
Orders(n) == {f \in [1..n -> 1..n] : \A i, j \in 1..n : i # j => f[i] # f[j]}
\* what Math.random() makes of a call on a list of n samples
RandomOutcomes(n) == [order : Orders(n), base : {0, 1}, step : {0, 1}]
DiversityMethods == {"random", "stratified", "representative", "diverse"}
\* the counts of the two groups of a renderGroups call
GroupCounts == {<<20, 150>>, <<100, 150>>, <<150, 20>>}
NoGroupCall == [fn |-> "none", result |-> <<>>]

\* the samples of a group, the count and the method asked for, and the counts
\* of two groups
InitGroups ==
    /\ \E samples \in DistinctLists(MaxSamples) : \E count \in 0..MaxGlyphs :
       \E method \in DiversityMethods : \E counts \in GroupCounts :
          grpIn = [samples |-> samples, count |-> count, method |-> method,
                   counts |-> counts]
    /\ grpCall = NoGroupCall
IdleGroups ==
    /\ grpIn = [samples |-> <<>>, count |-> 0, method |-> "random", counts |-> <<1, 1>>]
    /\ grpCall = NoGroupCall

\* selectDiverseSamples(samples, count, method)
SelectCall ==
    /\ grpCall = NoGroupCall
    /\ \E rnd \in RandomOutcomes(Len(grpIn.samples)) :
          grpCall' = [fn |-> "selectDiverseSamples",
                      result |-> selectDiverseSamples(grpIn.samples, grpIn.count,
                                                      grpIn.method, rnd)]
    /\ UNCHANGED <<grpIn, baseVars, uiVars>>

\* the groups of a renderGroups call: the same samples under two counts
GroupsOf(input) ==
    [g \in 1..2 |-> [count |-> input.counts[g], samples |-> input.samples]]
\* renderGroups(groups, {encoding: 'size', diversityMethod: method})
RenderGroupsCall ==
    /\ grpCall = NoGroupCall
    /\ \E rnd \in RandomOutcomes(Len(grpIn.samples)) :
          grpCall' = [fn |-> "renderGroups",
                      result |-> renderGroups(GroupsOf(grpIn), grpIn.method, rnd)]
    /\ UNCHANGED <<grpIn, baseVars, uiVars>>

----------------------------------------------------------------------------
(* The running VisualizationApp: processData, render, updateLayout,         *)
(* updateVisualization and the listeners of setupEventListeners, with the   *)
(* InteractionHandler.  A node object is a number: the object processData   *)
(* makes in its g-th run for participant k is 10 * g + k, so that the       *)
(* objects of two runs differ.  node.id is p.id, here k.                    *)

NodeObject(g, k) == 10 * g + k
\* node.id of a node object
NodeId(node) == node % 10
\* the participants of the file: the second has the signature SigB
Participant(k) == [id |-> k, isotype_signature |-> IF k = 2 THEN SigB ELSE SigA]

\* the value v, computed once
Once(v) == CHOOSE x \in {v} : TRUE
\* generateLinksOptimized() from pass i on; every Math.random of
\* getSampleIndices gives `draw`
RECURSIVE LinkPasses(_, _, _, _, _, _)
LinkPasses(ns, th, dim, i, acc, draw) ==
    IF i >= Len(ns) THEN acc.links
    ELSE LET n == Len(ns)
             draws == [k \in 1..RandomCount(i, sampleSizeOf(n), n) |-> draw]
             sampleIndices == getSampleIndices(i, sampleSizeOf(n), n, draws)
             r == Once(LinkPassResult(ns, th, dim, i, acc.links, acc.linkSet,
                                      sampleIndices))
         IN  LinkPasses(ns, th, dim, i + 1, [links |-> r.links, linkSet |-> r.linkSet], draw)
generateLinksOptimized(ns, th, dim, draw) ==
    Once(LinkPasses(ns, th, dim, 0, [links |-> <<>>, linkSet |-> {}], draw))

\* a processData that reads the configuration as it was before the listener
processData_previousConfig(n, g, cfg, draw) ==
    [nodes |-> [k \in 1..n |-> NodeObject(g, k)],
     links |-> LET ls == Once(generateLinksOptimized([k \in 1..n |-> Participant(k)],
                                                     config.similarityThreshold,
                                                     config.dimension, draw))
               IN  [k \in 1..Len(ls) |->
                      [source |-> NodeObject(g, ls[k].source + 1),
                       target |-> NodeObject(g, ls[k].target + 1),
                       similarity |-> ls[k].similarity,
                       dimension |-> ls[k].dimension]]]
\* processData(): [nodes, links] of the g-th run
processData(n, g, cfg, draw) ==
    LET ns == [k \in 1..n |-> Participant(k)]
        ls == Once(generateLinksOptimized(ns, cfg.similarityThreshold, cfg.dimension,
                                          draw))
    IN  [nodes |-> [k \in 1..n |-> NodeObject(g, k)],
         links |-> [k \in 1..Len(ls) |->
                      [source |-> NodeObject(g, ls[k].source + 1),
                       target |-> NodeObject(g, ls[k].target + 1),
                       similarity |-> ls[k].similarity,
                       dimension |-> ls[k].dimension]]]

\* the clusters renderClusters(nodes, links, similarityThreshold) draws a
\* fusion shape for
FusionClusters(ns, ls, th) ==
    IF Len(ns) = 0 \/ Len(ls) = 0 THEN <<>>
    ELSE detectClusters(ns, ls, Relaxed(Hundredths(th)))
\* NodeRenderer.render(nodes, config, highlightedNode): the nodes drawn
RenderedNodes(ns, highlighted) ==
    SelectSeq(ns, LAMBDA node : node # highlighted)
        \o (IF highlighted # NoNode THEN <<highlighted>> ELSE <<>>)
NotRendered == [fusion |-> FALSE, nodes |-> <<>>, links |-> <<>>, threshold |-> 0,
                clusters |-> <<>>, drawn |-> <<>>]
\* this.render()
render(ns, ls, cfg, fusion, highlighted) ==
    LET withFusion == fusion /\ Len(ns) > 0 /\ Len(ls) > 0
    IN  [fusion |-> withFusion,
         nodes |-> ns,
         links |-> ls,
         threshold |-> cfg.similarityThreshold,
         clusters |-> IF withFusion THEN FusionClusters(ns, ls, cfg.similarityThreshold)
                      ELSE <<>>,
         drawn |-> RenderedNodes(ns, highlighted)]
\* updateInteractionLayer(nodes): the circles of .interaction-layer, which
\* setup makes, are bound to the nodes
updateInteractionLayer(ns, bound, ph) ==
    IF Len(ns) > 0 /\ ph = "ready" THEN ns ELSE bound

\* this.links.filter(link => link.source === node || link.target === node)
LinksOfNode(ls, node) ==
    IF ls.def THEN SelectSeq(ls.v, LAMBDA link : link.source = node \/ link.target = node)
    ELSE <<>>

\* the positions a layout or a tick of a simulation gives the nodes
PositionsAt(shift, n) == [k \in 1..n |-> <<10 * k + shift, 20 * shift>>]
Shifts == {0, 1}
\* the numbers of participants of the files loaded, and their ids
ParticipantCounts == {2, 3}
ParticipantIds == 1..3
\* what Math.random gives getSampleIndices: the first or the last index
SampleDrawsOf(n) == {0, n - 1}
LayoutTypes == {"force", "cluster"}
ConfigThresholds == {50, DefaultThreshold}
DefaultConfig ==
    [dimension |-> "multidimensional", similarityThreshold |-> DefaultThreshold,
     layout |-> "force"]
NotJumping == [on |-> FALSE, node |-> NoNode, saved |-> <<0, 0>>, frames |-> 0]

\* new VisualizationApp(): the constructor has run, app.loadData() awaits
\* the file
InitUi ==
    /\ phase = "constructed"
    /\ participants \in ParticipantCounts
    /\ generation = 0
    /\ appNodes = <<>>
    /\ appLinks = <<>>
    /\ config = DefaultConfig
    /\ showClusterFusion = TRUE
    /\ highlightedNode = NoNode
    /\ highlightedLinks = <<>>
    /\ selectedNode = NoNode
    /\ handlerLinks = [def |-> FALSE, v |-> <<>>]
    /\ circles = <<>>
    /\ pointer = 0
    /\ connections = -1
    /\ lastRender = NotRendered
    /\ simulations = <<>>
    /\ running = {}
    /\ simulation = 0
    /\ timers = 0
    /\ renderScheduled = FALSE
    /\ position = <<>>
    /\ jumping = [k \in ParticipantIds |-> NotJumping]
IdleUi == InitUi /\ participants = 2

\* a simulation left running
StopSimulation_skipped(run, sim) == run
\* if (this.simulation) this.simulation.stop()
StopSimulation(run, sim) == run \ {sim}
\* layoutManager.applyLayout(nodes, links, layoutType, dimension): the force
\* layout leaves the positions to the simulation, the others place the nodes
applyLayout(layoutType, pos, shift) ==
    IF layoutType = "force" THEN pos ELSE PositionsAt(shift, Len(pos))
\* updateLayout() on st = [simulations, running, simulation, position]
updateLayout(st, ns, g, layoutType, shift) ==
    IF Len(ns) = 0 THEN st
    ELSE [simulations |-> Append(st.simulations, g),
          running |-> StopSimulation(st.running, st.simulation)
                         \cup {Len(st.simulations) + 1},
          simulation |-> Len(st.simulations) + 1,
          position |-> applyLayout(layoutType, st.position, shift)]
SimState ==
    [simulations |-> simulations, running |-> running, simulation |-> simulation,
     position |-> position]
\* the step of a listener that ends in this.updateLayout()
UpdateLayoutStep(layoutType) ==
    /\ Len(appNodes) > 0 => Len(simulations) < MaxSimulations
    /\ \E shift \in Shifts :
          LET st == updateLayout(SimState, appNodes, generation, layoutType, shift)
          IN  /\ simulations' = st.simulations
              /\ running' = st.running
              /\ simulation' = st.simulation
              /\ position' = st.position

\* this.data = await this.dataLoader.load(); processData(); render(); and the
\* setTimeout of updateLayout and interactionHandler.setup
LoadData ==
    /\ phase = "constructed"
    /\ phase' = "loaded"
    /\ \E draw \in SampleDrawsOf(participants) :
       \E data \in {processData(participants, generation + 1, config, draw)} :
              /\ appNodes' = data.nodes
              /\ appLinks' = data.links
              /\ lastRender' = render(data.nodes, data.links, config, showClusterFusion,
                                      highlightedNode)
    /\ \E shift \in Shifts : position' = PositionsAt(shift, participants)
    /\ generation' = generation + 1
    /\ UNCHANGED <<participants, config, showClusterFusion, highlightVars, handlerVars,
                   simVars, jumping, baseVars, grpVars>>

\* setTimeout(() => { this.updateLayout(); this.interactionHandler.setup(
\* this.nodes, this.links); ... }, 100)
SetupTimer ==
    /\ phase = "loaded"
    /\ phase' = "ready"
    /\ UpdateLayoutStep(config.layout)
    /\ handlerLinks' = [def |-> TRUE, v |-> appLinks]
    /\ circles' = appNodes
    /\ UNCHANGED <<participants, graphVars, showClusterFusion, highlightVars, pointer,
                   lastRender, timers, renderScheduled, jumping, baseVars, grpVars>>

\* updateVisualization() under the configuration cfg: before the file is
\* loaded processData throws on this.data
UpdateVisualizationStep(cfg) ==
    /\ config' = cfg
    /\ IF phase = "constructed"
       THEN UNCHANGED <<generation, appNodes, appLinks, lastRender, circles, running,
                        timers, position>>
       ELSE /\ generation < MaxGenerations
            /\ generation' = generation + 1
            /\ running' = StopSimulation(running, simulation)
            /\ \E draw \in SampleDrawsOf(participants) :
               \E data \in {processData(participants, generation + 1, cfg, draw)} :
                      /\ appNodes' = data.nodes
                      /\ appLinks' = data.links
                      /\ lastRender' = render(data.nodes, data.links, cfg,
                                              showClusterFusion, highlightedNode)
                      /\ circles' = updateInteractionLayer(data.nodes, circles, phase)
            /\ \E shift \in Shifts : position' = PositionsAt(shift, participants)
            /\ timers' = timers + 1
    /\ UNCHANGED <<phase, participants, showClusterFusion, highlightVars, handlerLinks,
                   pointer, simulations, simulation, renderScheduled, jumping, baseVars,
                   grpVars>>

\* #similarity-threshold 'input'
ThresholdInput ==
    \E value \in ConfigThresholds \ {config.similarityThreshold} :
        UpdateVisualizationStep([config EXCEPT !.similarityThreshold = value])
\* #dimension-select 'change'
DimensionChange ==
    \E value \in LinkDimensions \ {config.dimension} :
        UpdateVisualizationStep([config EXCEPT !.dimension = value])

\* setTimeout(() => { this.updateLayout(); }, 50) of updateVisualization
DelayedLayout ==
    /\ timers > 0
    /\ timers' = timers - 1
    /\ UpdateLayoutStep(config.layout)
    /\ UNCHANGED <<phase, participants, graphVars, showClusterFusion, highlightVars,
                   handlerVars, lastRender, renderScheduled, jumping, baseVars, grpVars>>
\* #layout-select 'change'
LayoutChange ==
    /\ \E value \in LayoutTypes \ {config.layout} :
          /\ config' = [config EXCEPT !.layout = value]
          /\ UpdateLayoutStep(value)
    /\ UNCHANGED <<phase, participants, generation, appNodes, appLinks,
                   showClusterFusion, highlightVars, handlerVars, lastRender, timers,
                   renderScheduled, jumping, baseVars, grpVars>>
\* togglePanel, and the 'resize' listener of window: the sizes are set and
\* updateLayout is called
LayoutOnly ==
    /\ UpdateLayoutStep(config.layout)
    /\ UNCHANGED <<phase, participants, graphVars, showClusterFusion, highlightVars,
                   handlerVars, lastRender, timers, renderScheduled, jumping, baseVars,
                   grpVars>>
TogglePanel == LayoutOnly
WindowResize == LayoutOnly

\* #cluster-fusion-toggle 'change'
FusionToggle ==
    /\ showClusterFusion' = ~showClusterFusion
    /\ lastRender' = render(appNodes, appLinks, config, ~showClusterFusion, highlightedNode)
    /\ circles' = updateInteractionLayer(appNodes, circles, phase)
    /\ UNCHANGED <<phase, participants, graphVars, highlightVars, handlerLinks, pointer,
                   simVars, position, jumping, baseVars, grpVars>>

\* a 'tick' of simulation s, the last one when `final`: d3 has moved the
\* nodes of s; the listener updates the interaction layer and may schedule a
\* render; on the last tick the simulation stops and 'end' renders
Tick ==
    /\ \E s \in running : \E final \in BOOLEAN : \E shift \in Shifts :
       \E shouldRender \in BOOLEAN :
          /\ position' = IF simulations[s] = generation
                         THEN PositionsAt(shift, Len(appNodes)) ELSE position
          /\ renderScheduled' = (renderScheduled \/ shouldRender)
          /\ running' = IF final THEN running \ {s} ELSE running
          /\ lastRender' = IF final
                           THEN render(appNodes, appLinks, config, showClusterFusion,
                                       highlightedNode)
                           ELSE lastRender
    /\ circles' = updateInteractionLayer(appNodes, circles, phase)
    /\ UNCHANGED <<phase, participants, graphVars, showClusterFusion, highlightVars,
                   handlerLinks, pointer, simulations, simulation, timers, jumping,
                   baseVars, grpVars>>
\* requestAnimationFrame(() => { this.render(); this.renderScheduled = false; })
RenderFrame ==
    /\ renderScheduled
    /\ renderScheduled' = FALSE
    /\ lastRender' = render(appNodes, appLinks, config, showClusterFusion, highlightedNode)
    /\ circles' = updateInteractionLayer(appNodes, circles, phase)
    /\ UNCHANGED <<phase, participants, graphVars, showClusterFusion, highlightVars,
                   handlerLinks, pointer, simulations, running, simulation, timers,
                   position, jumping, baseVars, grpVars>>

\* highlightNode(node) and showNodeInfo(node)
HighlightAndShow(node) ==
    /\ highlightedNode' = node
    /\ highlightedLinks' = LinksOfNode(handlerLinks, node)
    /\ connections' = Len(LinksOfNode(handlerLinks, node))
    /\ lastRender' = render(appNodes, appLinks, config, showClusterFusion, node)
    /\ circles' = updateInteractionLayer(appNodes, circles, phase)
\* 'mouseover' of circle c: onNodeHover(event, d)
NodeHover ==
    /\ pointer = 0
    /\ \E c \in 1..Len(circles) :
          /\ pointer' = c
          /\ HighlightAndShow(circles[c])
    /\ UNCHANGED <<phase, participants, graphVars, showClusterFusion, selectedNode,
                   handlerLinks, simVars, position, jumping, baseVars, grpVars>>
\* 'mouseout' of the circle the pointer is over: onNodeLeave(event, d)
NodeLeave ==
    /\ pointer # 0
    /\ pointer' = 0
    /\ IF selectedNode # circles[pointer]
       THEN /\ highlightedNode' = NoNode
            /\ highlightedLinks' = <<>>
            /\ lastRender' = render(appNodes, appLinks, config, showClusterFusion, NoNode)
            /\ circles' = updateInteractionLayer(appNodes, circles, phase)
            /\ connections' = IF selectedNode = NoNode THEN -1 ELSE connections
       ELSE UNCHANGED <<highlightedNode, highlightedLinks, lastRender, circles,
                        connections>>
    /\ UNCHANGED <<phase, participants, graphVars, showClusterFusion, selectedNode,
                   handlerLinks, simVars, position, jumping, baseVars, grpVars>>
\* makeNodeJump(node) up to its first frame: the position is saved
makeNodeJump(jumps, node, pos) ==
    IF jumps[NodeId(node)].on THEN jumps
    ELSE [jumps EXCEPT ![NodeId(node)] =
             [on |-> TRUE, node |-> node, saved |-> pos[NodeId(node)], frames |-> 0]]
\* 'click' of the circle the pointer is over: onNodeClick(event, d)
NodeClick ==
    /\ pointer # 0
    /\ jumping' = makeNodeJump(jumping, circles[pointer], position)
    /\ selectedNode' = circles[pointer]
    /\ HighlightAndShow(circles[pointer])
    /\ UNCHANGED <<phase, participants, graphVars, showClusterFusion, handlerLinks,
                   pointer, simVars, position, baseVars, grpVars>>
\* a frame the animation ends with: node.x = savedX; node.y = savedY
RestoredPosition(pos, jump) ==
    IF jump.node \in {appNodes[k] : k \in 1..Len(appNodes)}
    THEN [pos EXCEPT ![NodeId(jump.node)] = jump.saved]
    ELSE pos
\* animate() of the jump of node id k: the glyph is drawn displaced and
\* node.x, node.y are put back; the last frame (progress = 1) writes the
\* saved position and renders
AnimationFrame ==
    /\ \E k \in ParticipantIds : \E final \in BOOLEAN :
          /\ jumping[k].on
          /\ IF final
             THEN /\ position' = RestoredPosition(position, jumping[k])
                  /\ jumping' = [jumping EXCEPT ![k] = NotJumping]
                  /\ lastRender' = render(appNodes, appLinks, config, showClusterFusion,
                                          highlightedNode)
                  /\ circles' = updateInteractionLayer(appNodes, circles, phase)
             ELSE /\ jumping[k].frames < MaxFrames
                  /\ jumping' = [jumping EXCEPT ![k].frames = @ + 1]
                  /\ UNCHANGED <<position, lastRender, circles>>
    /\ UNCHANGED <<phase, participants, graphVars, showClusterFusion, highlightVars,
                   handlerLinks, pointer, simVars, baseVars, grpVars>>

----------------------------------------------------------------------------
(* Specifications *)

\* the parts of the state a specification does not exercise
IdleLate == IdleGroups /\ IdleUi
IdleCos == cosIn = NoCosIn /\ cosOut = NotCalled /\ simIn = NoSimIn /\ simOut = NotCalled
IdleApp ==
    /\ nodes = <<>> /\ threshold = DefaultThreshold /\ dimension = "multidimensional"
    /\ links = <<>> /\ linkSet = {} /\ passIdx = 0 /\ passLog = <<>>
IdleClusters ==
    /\ cNodes = <<>> /\ cPos = <<>> /\ cLinks = <<>>
    /\ visited = {} /\ lastCall = NoCall /\ callLog = {} /\ detectCalls = 0
IdleArt == InitArt
\* the EmotiveArt a ClusterFusion constructs for itself
FusionArt ==
    /\ artRandom \in {<<rand>> : rand \in RandomDraws}
    /\ artPrev = NoArtCall /\ artCall = NoArtCall

\* cosineSimilarity and calculateSimilarity on drawn arguments
NextCos == CosineCall \/ SimilarityCall
InitCosOnly ==
    InitCos /\ IdleApp /\ IdleClusters /\ IdleArt /\ IdleSubj /\ IdleSample /\ IdleLoad /\ IdleLate
SpecCos == InitCosOnly /\ [][NextCos]_vars

\* generateLinksOptimized on drawn nodes, threshold and dimension
NextLinks == LinkPass
InitLinksOnly ==
    InitLinks /\ IdleCos /\ IdleClusters /\ IdleArt /\ IdleSubj /\ IdleSample /\ IdleLoad /\ IdleLate
SpecLinks == InitLinksOnly /\ [][NextLinks]_vars

\* detectClusters called again and again on drawn nodes and links
NextClusters == DetectCall
InitClustersOnly ==
    InitClusters /\ IdleCos /\ IdleApp /\ IdleArt /\ IdleSubj /\ IdleSample /\ IdleLoad /\ IdleLate
SpecClusters == InitClustersOnly /\ [][NextClusters]_vars

\* the four functions of ClusterFusion on drawn nodes, positions and links
NextFusion == DetectCall \/ BoundsCall \/ ShapeCall \/ RenderCall
InitFusionOnly ==
    InitFusion /\ IdleCos /\ IdleApp /\ FusionArt /\ IdleSubj /\ IdleSample /\ IdleLoad /\ IdleLate
SpecFusion == InitFusionOnly /\ [][NextFusion]_vars

\* EmotiveArt instances constructed and called
NextNoise == ConstructArt \/ NoiseCall \/ FusionShapeCall
InitNoiseOnly ==
    InitArt /\ IdleCos /\ IdleApp /\ IdleClusters /\ IdleSubj /\ IdleSample /\ IdleLoad /\ IdleLate
SpecNoise == InitNoiseOnly /\ [][NextNoise]_vars

\* IsotypeRenderer instances constructed, and their outlines generated
NextGlyph == ConstructArt \/ UnifiedShapeCall
InitGlyphOnly ==
    InitArt /\ IdleCos /\ IdleApp /\ IdleClusters /\ IdleSubj /\ IdleSample /\ IdleLoad /\ IdleLate
SpecGlyph == InitGlyphOnly /\ [][NextGlyph]_vars

\* IsotypeRenderer instances constructed, and colour adjustments computed
NextColor == ConstructArt \/ ColorCall
InitColorOnly ==
    InitArt /\ IdleCos /\ IdleApp /\ IdleClusters /\ IdleSubj /\ IdleSample /\ IdleLoad /\ IdleLate
SpecColor == InitColorOnly /\ [][NextColor]_vars

\* extractSubjectivity on drawn nodes
NextSubj == ExtractCall
InitSubjOnly ==
    InitSubj /\ IdleCos /\ IdleApp /\ IdleClusters /\ IdleArt /\ IdleSample /\ IdleLoad /\ IdleLate
SpecSubj == InitSubjOnly /\ [][NextSubj]_vars

\* calculateClusterBounds on nodes at drawn positions
NextBounds == ClusterBoundsCall
InitBoundsOnly ==
    InitBounds /\ IdleCos /\ IdleApp /\ IdleArt /\ IdleSubj /\ IdleSample /\ IdleLoad /\ IdleLate
SpecBounds == InitBoundsOnly /\ [][NextBounds]_vars

\* getSampleIndices on drawn node counts and indices
NextSample == SampleCall
InitSampleOnly ==
    InitSample /\ IdleCos /\ IdleApp /\ IdleClusters /\ IdleArt /\ IdleSubj /\ IdleLoad /\ IdleLate
SpecSample == InitSampleOnly /\ [][NextSample]_vars

\* load() fetching path after path
NextLoad == FetchPath \/ ReadBody
InitLoadOnly ==
    InitLoad /\ IdleCos /\ IdleApp /\ IdleClusters /\ IdleArt /\ IdleSubj /\ IdleSample /\ IdleLate
SpecLoad == InitLoadOnly /\ [][NextLoad]_vars

\* the parts of the state of the group renderer and of the application
IdleBase ==
    IdleCos /\ IdleApp /\ IdleClusters /\ IdleArt /\ IdleSubj /\ IdleSample /\ IdleLoad
\* selectDiverseSamples and renderGroups on drawn samples
NextGroups == SelectCall \/ RenderGroupsCall
InitGroupsOnly == InitGroups /\ IdleBase /\ IdleUi
SpecGroups == InitGroupsOnly /\ [][NextGroups]_vars

\* the application loaded, its threshold and dimension changed and fusion
\* toggled, with the timers, the simulations and the renders they cause
NextRender ==
    \/ LoadData \/ SetupTimer \/ ThresholdInput \/ DimensionChange \/ FusionToggle
    \/ DelayedLayout \/ Tick \/ RenderFrame
InitUiOnly == InitUi /\ IdleBase /\ IdleGroups
SpecRender == InitUiOnly /\ [][NextRender]_vars
\* the application loaded, its threshold and dimension changed, its nodes
\* hovered and clicked
NextUi ==
    \/ LoadData \/ SetupTimer \/ ThresholdInput \/ DimensionChange
    \/ NodeHover \/ NodeLeave \/ NodeClick
SpecUi == InitUiOnly /\ [][NextUi]_vars
\* the application loaded, its layout, threshold and dimension changed, its
\* panel toggled and its window resized, with the timers and the simulations
NextLayout ==
    \/ LoadData \/ SetupTimer \/ ThresholdInput \/ DimensionChange \/ DelayedLayout
    \/ LayoutChange \/ TogglePanel \/ WindowResize \/ Tick \/ RenderFrame
SpecLayout == InitUiOnly /\ [][NextLayout]_vars
\* nodes clicked while a simulation moves them
NextJump ==
    \/ LoadData \/ SetupTimer \/ NodeHover \/ NodeLeave \/ NodeClick \/ Tick
    \/ RenderFrame \/ AnimationFrame
SpecJump == InitUiOnly /\ [][NextJump]_vars

Init == InitLinksOnly
Next == NextLinks
Spec == SpecLinks


----------------------------------------------------------------------------
(* Properties of generateLinksOptimized (SpecLinks) *)

\* the edges of the list that have node index i as source, as target, at an end
EdgesFrom(i) == {k \in 1..Len(links) : links[k].source = i}
EdgesAt(i) == {k \in 1..Len(links) : links[k].source = i \/ links[k].target = i}
NodeIndices == 0..(Len(nodes) - 1)
\* in pass i (of a finished pass), j was a candidate and was not retained
Dropped(i, j) ==
    /\ \E k \in 1..Len(passLog[i + 1].candidates) :
          passLog[i + 1].candidates[k].targetIndex = j
    /\ \A k \in 1..Len(passLog[i + 1].top) : passLog[i + 1].top[k].targetIndex # j

\* C1: the returned edge list holds at most one edge per unordered pair of
\* subjects, whichever endpoint's pass discovered the pair
C1_NoDuplicateEdges ==
    LinksBuilt =>
        \A a, b \in 1..Len(links) :
            a # b => {links[a].source, links[a].target}
                        # {links[b].source, links[b].target}
\* a pair that the lower endpoint's pass dropped and the higher endpoint's pass
\* then linked
C1_Witness ==
    /\ LinksBuilt
    /\ \E k \in 1..Len(links) :
          /\ links[k].target < links[k].source
          /\ Dropped(links[k].target, links[k].source)

\* C2: every subject is an endpoint of at most maxLinksPerNode edges of the
\* returned list
C2_DegreeCap ==
    LinksBuilt =>
        \A i \in NodeIndices :
            Cardinality(EdgesAt(i)) <= maxLinksPerNode(Len(nodes))

\* C3: every subject is the source of at most maxLinksPerNode edges of the
\* returned list
C3_OutgoingCap ==
    LinksBuilt =>
        \A i \in NodeIndices :
            Cardinality(EdgesFrom(i)) <= maxLinksPerNode(Len(nodes))
\* a pass with more candidates than the cap, which retained exactly the cap
C3_Witness ==
    /\ LinksBuilt
    /\ \E i \in NodeIndices :
          /\ Len(passLog[i + 1].candidates) > maxLinksPerNode(Len(nodes))
          /\ Cardinality(EdgesFrom(i)) = maxLinksPerNode(Len(nodes))

\* C4: every edge of the returned list has similarity >= the configured
\* threshold and joins two distinct subjects
C4_EdgesAboveThreshold ==
    LinksBuilt =>
        \A k \in 1..Len(links) :
            /\ SimGE(links[k].similarity, Hundredths(threshold))
            /\ links[k].source # links[k].target
            /\ links[k].similarity =
                  calculateSimilarity(nodes[links[k].source + 1],
                                      nodes[links[k].target + 1], dimension)
\* a list with an edge, built from nodes of which two are below the threshold
C4_Witness ==
    /\ LinksBuilt
    /\ Len(links) > 0
    /\ \E i, j \in NodeIndices :
          /\ i # j
          /\ ~SimGE(calculateSimilarity(nodes[i + 1], nodes[j + 1], dimension),
                    Hundredths(threshold))

\* C22: in every pass the retained candidates are the most similar ones: no
\* candidate the pass dropped is strictly more similar to the subject than a
\* candidate it retained.
C22_RetainedAreMostSimilar ==
    \A p \in 1..Len(passLog) :
        \A c \in 1..Len(passLog[p].candidates) : \A t \in 1..Len(passLog[p].top) :
            Dropped(p - 1, passLog[p].candidates[c].targetIndex) =>
                ~SimGT(passLog[p].candidates[c].similarity, passLog[p].top[t].similarity)
\* a pass that dropped a candidate less similar than one it retained, which
\* came later in the sample
C22_Witness ==
    \E p \in 1..Len(passLog) :
        \E c, d \in 1..Len(passLog[p].candidates) :
            /\ c < d
            /\ Dropped(p - 1, passLog[p].candidates[c].targetIndex)
            /\ ~Dropped(p - 1, passLog[p].candidates[d].targetIndex)
            /\ SimGT(passLog[p].candidates[d].similarity,
                     passLog[p].candidates[c].similarity)

\* the edges of the list that join i and j
EdgesBetween(i, j) ==
    {k \in 1..Len(links) : {links[k].source, links[k].target} = {i, j}}
\* C23: for at most 11 subjects the returned list is the complete threshold
\* graph, whatever Math.random returns: exactly one edge for every unordered
\* pair of distinct subjects with similarity >= threshold, and no other edge.
C23_CompleteUpToEleven ==
    LinksBuilt /\ Len(nodes) <= 11 =>
        /\ \A i, j \in NodeIndices :
               i < j =>
                  Cardinality(EdgesBetween(i, j)) =
                     IF SimGE(calculateSimilarity(nodes[i + 1], nodes[j + 1], dimension),
                              Hundredths(threshold))
                     THEN 1 ELSE 0
        /\ \A k \in 1..Len(links) :
               /\ links[k].source # links[k].target
               /\ {links[k].source, links[k].target} \subseteq NodeIndices
\* 11 subjects, of which some pairs are linked and some are not
C23_Witness ==
    /\ LinksBuilt
    /\ Len(nodes) = 11
    /\ \E i, j \in NodeIndices : i < j /\ EdgesBetween(i, j) = {}
    /\ \E i \in NodeIndices : Cardinality(EdgesAt(i)) = 8


----------------------------------------------------------------------------
(* Properties of ClusterFusion (SpecClusters, SpecFusion) *)

Members(cluster) == {cluster[k] : k \in 1..Len(cluster)}
NodeSet == {cNodes[k] : k \in 1..Len(cNodes)}
\* a link with similarity >= th joins a and b
Joined(a, b, th) ==
    \E k \in 1..Len(cLinks) :
        /\ SimGE(cLinks[k].similarity, th)
        /\ {cLinks[k].source, cLinks[k].target} = {a, b}
\* the nodes a path of such links reaches from the nodes of S
RECURSIVE Reached(_, _)
Reached(S, th) ==
    LET T == S \cup {b \in NodeSet : \E a \in S : Joined(a, b, th)}
    IN  IF T = S THEN S ELSE Reached(T, th)
\* the connected components with at least 2 nodes
ConnectedComponents(th) ==
    {c \in {Reached({a}, th) : a \in NodeSet} : Cardinality(c) >= 2}

C6_ClustersAreComponents ==
    \A e \in callLog :
        /\ {Members(e[2][k]) : k \in 1..Len(e[2])} = ConnectedComponents(e[1])
        /\ Len(e[2]) = Cardinality(ConnectedComponents(e[1]))
        /\ \A k \in 1..Len(e[2]) : Cardinality(Members(e[2][k])) = Len(e[2][k])
\* three nodes pairwise linked with similarity 1.0: one cluster of all three
\* at threshold 0.95
C6_Witness ==
    /\ Len(cNodes) = 3
    /\ Len(cLinks) = 3
    /\ \A a, b \in NodeSet : a # b => Joined(a, b, One)
    /\ <<Hundredths(DefaultThreshold), <<cNodes>>>> \in callLog

\* C7: two detectClusters calls with the same nodes, links and threshold
\* return the same clusters, in the same order with the same member order,
\* whatever calls were made in between
C7_CallsIndependent ==
    \A e1, e2 \in callLog : e1[1] = e2[1] => e1[2] = e2[2]
\* three calls with two thresholds: one input was repeated, and both inputs
\* gave clusters
C7_Witness ==
    /\ detectCalls = 3
    /\ Cardinality(callLog) = 2
    /\ \A e \in callLog : Len(e[2]) > 0
    /\ \E e1, e2 \in callLog : e1[2] # e2[2]

\* C8: no call of detectClusters, calculateClusterBounds, generateFusionShape
\* or renderClusters changes a node's x or y or the link list
C8_PositionsAndLinksKept == [][cPos' = cPos /\ cLinks' = cLinks]_vars
\* renderClusters has returned a shape for a cluster that holds the node no
\* layout has placed, after detectClusters and the other two were called
C8_Witness ==
    /\ detectCalls > 0
    /\ lastCall.fn = "renderClusters"
    /\ Len(lastCall.result) > 0
    /\ \E k \in 1..Len(lastCall.result) :
          \E m \in 1..Len(lastCall.result[k].bounds.nodes) :
              ~cPos[lastCall.result[k].bounds.nodes[m]].x.def


----------------------------------------------------------------------------
(* Properties of cosineSimilarity and calculateSimilarity (SpecCos) *)

\* a defined vector with a component that is not 0
NonZero(vec) == vec.def /\ \E k \in 1..Len(vec.v) : vec.v[k] # 0
\* a defined vector whose norm is 0
ZeroNorm(vec) == vec.def /\ \A k \in 1..Len(vec.v) : vec.v[k] = 0
CosineCalled == cosOut # NotCalled
SimilarityCalled == simOut # NotCalled

\* C9: cosineSimilarity(a, a) is 1 for every nonzero vector a, of any length
C9_SelfSimilarityIsOne ==
    (CosineCalled /\ cosIn.vec1 = cosIn.vec2 /\ NonZero(cosIn.vec1))
        => SimEq(cosOut, One)

\* the arguments for which cosineSimilarity is to return 0
DegenerateArguments(vec1, vec2) ==
    \/ ~vec1.def
    \/ ~vec2.def
    \/ Len(vec1.v) # Len(vec2.v)
    \/ ZeroNorm(vec1)
    \/ ZeroNorm(vec2)
\* the node pairs for which calculateSimilarity is to yield 0
DegenerateSelection(node1, node2, dim) ==
    \/ ~SelectedVector(node1, dim).def
    \/ ~SelectedVector(node2, dim).def
    \/ Len(SelectedVector(node1, dim).v) # Len(SelectedVector(node2, dim).v)

\* C10: cosineSimilarity returns the number 0, and throws nothing, when a
\* vector is missing, the lengths differ or a norm is 0; so does
\* calculateSimilarity when a selected vector is missing or the selected
\* vectors differ in length
C10_DegenerateGivesZero ==
    /\ (CosineCalled /\ DegenerateArguments(cosIn.vec1, cosIn.vec2))
          => (cosOut.kind = "number" /\ cosOut.num = 0)
    /\ (SimilarityCalled
          /\ DegenerateSelection(simIn.node1, simIn.node2, simIn.dimension))
          => (simOut.kind = "number" /\ simOut.num = 0)
\* calculateSimilarity was called on a pair of which one node has no vector
\* for the dimension and no semantic vector to fall back on, the other has one
C10_Witness ==
    /\ SimilarityCalled
    /\ simIn.dimension = "topic"
    /\ ~SelectedVector(simIn.node1, simIn.dimension).def
    /\ NonZero(SelectedVector(simIn.node2, simIn.dimension))


----------------------------------------------------------------------------
(* Properties of the noise field (SpecNoise) *)

\* C11: two smoothNoise calls with the same x, y, seed and octaves return the
\* same value, and two generateFusionShape calls on the same bounds the same
\* 32 points, whichever EmotiveArt instance serves them
C11_NoiseDeterministic ==
    (artPrev.fn = artCall.fn /\ artPrev.args = artCall.args)
        => artPrev.result = artCall.result


----------------------------------------------------------------------------
(* Properties of the glyph outline and colour (SpecGlyph, SpecColor) *)

\* C12: generateUnifiedShape returns exactly 32 points, point i (from 0) at
\* the angle 2 * pi * i / 32, so the angles increase strictly from 0 and stay
\* below 2 * pi; two calls with the same arguments return the same points
C12_UnifiedShapePoints ==
    /\ artCall.fn = "generateUnifiedShape" =>
          /\ Len(artCall.result) = 32
          /\ \A i \in 1..Len(artCall.result) : artCall.result[i].angle = i - 1
          /\ artCall.result[1].angle = 0
          /\ \A i \in 1..(Len(artCall.result) - 1) :
                artCall.result[i].angle < artCall.result[i + 1].angle
          /\ artCall.result[Len(artCall.result)].angle < 32
    /\ (artPrev.fn = "generateUnifiedShape" /\ artCall.fn = "generateUnifiedShape"
        /\ artPrev.args = artCall.args) => artPrev.result = artCall.result
\* the same outline of radius 13 asked of two renderers whose EmotiveArt drew
\* different tables
C12_Witness ==
    /\ Len(artRandom) = 2
    /\ artRandom[1] # artRandom[2]
    /\ artPrev.fn = "generateUnifiedShape"
    /\ artCall.fn = "generateUnifiedShape"
    /\ artPrev.args = artCall.args
    /\ artCall.args[3] = 13
    /\ artCall.result[2].x.scale # artCall.result[3].x.scale

\* the two profiles are the same but for emotional_expression.intensity
OnlyIntensityDiffers(p, q) ==
    [p EXCEPT !.emotional_expression.intensity = 0]
        = [q EXCEPT !.emotional_expression.intensity = 0]
ColorCalled(call) == call.fn = "calculateColorAdjustment"

----------------------------------------------------------------------------
(* Properties of extractSubjectivity (SpecSubj) *)

\* the text the latest call analysed
SubjText == TextOr(subjNode.v.text_content, <<>>)
\* the latest call returned a profile
Returned == subjProfile \notin {NotCalled, TypeError}
\* the largest share of a category, and the first category that has it
LargestShare(counts) == Frac(MaxOver(counts, Len(counts)), SumOver(counts, Len(counts)))
FirstLargest(keys, counts) ==
    keys[CHOOSE k \in 1..Len(keys) :
            /\ counts[k] = MaxOver(counts, Len(counts))
            /\ \A j \in 1..(k - 1) : counts[j] # MaxOver(counts, Len(counts))]
\* a categorical field reports the dominant category of the counted indicators
ReportsDominant(category, score, keys, counts) ==
    SumOver(counts, Len(counts)) > 0 =>
        /\ score = LargestShare(counts)
        /\ category = FirstLargest(keys, counts)
TemporalNames == <<"past_focused", "present_focused", "future_focused">>
ExpressionKeys == <<"direct", "indirect">>

\* C14: in every categorical field of a returned profile (narrative_style,
\* temporal_orientation, authenticity, expression_mode), when at least one
\* indicator was counted the score is the largest share of a category and
\* the category is the first declared one that attains it.
C14_DominantCategory ==
    Returned =>
        /\ ReportsDominant(subjProfile.narrative_style.type,
                           subjProfile.narrative_style.score,
                           NarrativeKeys, NarrativeCounts(SubjText))
        /\ ReportsDominant(subjProfile.temporal_orientation.orientation,
                           subjProfile.temporal_orientation.score,
                           TemporalNames, TemporalCounts(SubjText))
        /\ ReportsDominant(subjProfile.authenticity.style,
                           subjProfile.authenticity.score,
                           AuthenticityKeys, AuthenticityCounts(SubjText))
        /\ ReportsDominant(subjProfile.expression_mode.mode,
                           subjProfile.expression_mode.score,
                           ExpressionKeys, ExpressionCounts(SubjText))

\* an analyzer falls back when the text is empty or no indicator was counted
ReportsFallback(category, score, fallback, counts) ==
    (SubjText = <<>> \/ SumOver(counts, Len(counts)) = 0) =>
        category = fallback /\ score = Half

\* C15: each lexical-indicator analyzer (narrative style, temporal
\* orientation, authenticity, expression mode) returns its fixed fallback
\* category with score 0.5 when the text is empty or no indicator of any of
\* its categories was counted.
C15_FallbackHalf ==
    Returned =>
        /\ ReportsFallback(subjProfile.narrative_style.type,
                           subjProfile.narrative_style.score,
                           "conversational", NarrativeCounts(SubjText))
        /\ ReportsFallback(subjProfile.temporal_orientation.orientation,
                           subjProfile.temporal_orientation.score,
                           "mixed", TemporalCounts(SubjText))
        /\ ReportsFallback(subjProfile.authenticity.style,
                           subjProfile.authenticity.score,
                           "casual", AuthenticityCounts(SubjText))
        /\ ReportsFallback(subjProfile.expression_mode.mode,
                           subjProfile.expression_mode.score,
                           "direct", ExpressionCounts(SubjText))

\* a text or vector is absent or empty
Bare(field) == ~field.def \/ field.v = <<>>
BareNode ==
    /\ subjNode.def
    /\ Bare(subjNode.v.text_content)
    /\ Bare(OptionalField(subjNode.v, "semantic"))
    /\ Bare(OptionalField(subjNode.v, "emotion"))
\* the defaults of the ten fields
DefaultProfile ==
    [narrative_style |-> [type |-> "conversational", score |-> Half],
     emotional_expression |-> [level |-> "moderate", intensity |-> Half],
     temporal_orientation |-> [orientation |-> "mixed", score |-> Frac(33, 100)],
     self_reference |-> [level |-> "medium", score |-> Half],
     complexity |-> [level |-> "moderate", score |-> Half],
     authenticity |-> [style |-> "casual", score |-> Half],
     rhythm |-> Half,
     reflection_depth |-> Half,
     expression_mode |-> [mode |-> "direct", score |-> Half],
     uniqueness |-> Frac(35, 100)]

\* C16: called on a node whose text_content, semantic vector and emotion
\* vector are each absent or empty, extractSubjectivity does not throw and
\* returns the complete profile of the ten fields, each with its default.
C16_DefaultsWhenAbsent ==
    (subjProfile # NotCalled /\ BareNode) => subjProfile = DefaultProfile
C16_Witness ==
    /\ BareNode /\ subjProfile = DefaultProfile
    /\ ~subjNode.v.text_content.def
    /\ subjNode.v.isotype_signature = SubjSignature(Vec(<<>>), Undefined)

\* 0 <= score <= 1
InUnit(score) == FracLE(Frac(0, 1), score) /\ FracLE(score, FracOne)

\* C17: every numeric score of a returned profile lies in [0, 1], whatever
\* the text, the semantic vector of real numbers and the emotion vector with
\* entries in [0, 1].
C17_ScoresInUnit ==
    Returned =>
        /\ InUnit(subjProfile.narrative_style.score)
        /\ InUnit(subjProfile.emotional_expression.intensity)
        /\ InUnit(subjProfile.temporal_orientation.score)
        /\ InUnit(subjProfile.self_reference.score)
        /\ InUnit(subjProfile.complexity.score)
        /\ InUnit(subjProfile.authenticity.score)
        /\ InUnit(subjProfile.expression_mode.score)
        /\ InUnit(subjProfile.rhythm)
        /\ InUnit(subjProfile.reflection_depth)
        /\ InUnit(subjProfile.uniqueness)

----------------------------------------------------------------------------
(* Properties of getSampleIndices (SpecSample) *)

\* C18: for every node count n and every index i, getSampleIndices(i,
\* sampleSize) with the sampleSize of n's tier returns at most sampleSize
\* indices.
C18_SampleBounded == sampleOut # NoSample => Len(sampleOut) <= sampleIn.sampleSize

----------------------------------------------------------------------------
(* Properties of calculateClusterBounds (SpecBounds) *)

\* the position the code reads of member k of a cluster
MemberX(cluster, k) == CoordOr0(cPos[cluster[k]].x)
MemberY(cluster, k) == CoordOr0(cPos[cluster[k]].y)
\* (count * distance)^2 from the center of the bounds to member k
MemberDist2(bounds, k) ==
    LET dx == bounds.count * MemberX(bounds.nodes, k) - bounds.sumX
        dy == bounds.count * MemberY(bounds.nodes, k) - bounds.sumY
    IN  dx * dx + dy * dy
BoundsReturned == lastCall.fn = "calculateClusterBounds" /\ lastCall.result # Null

\* C19: for a non-empty cluster calculateClusterBounds returns as center the
\* arithmetic mean of the member positions and as radius 1.3 times the
\* largest distance from the center to a member, so that every member lies
\* within the radius of the center.
C19_CenterAndRadius ==
    BoundsReturned =>
        LET bounds == lastCall.result
            members == 1..Len(bounds.nodes)
        IN  /\ bounds.count = Len(bounds.nodes)
            /\ bounds.sumX = SumOver([k \in members |-> MemberX(bounds.nodes, k)],
                                     Len(bounds.nodes))
            /\ bounds.sumY = SumOver([k \in members |-> MemberY(bounds.nodes, k)],
                                     Len(bounds.nodes))
            /\ \E k \in members :
                  RadiusSq(bounds) = RadiusPadding * RadiusPadding * MemberDist2(bounds, k)
            /\ \A k \in members :
                  /\ RadiusPadding * RadiusPadding * MemberDist2(bounds, k) <= RadiusSq(bounds)
                  /\ 100 * MemberDist2(bounds, k) <= RadiusSq(bounds)
\* three members at three places, the last of them not the farthest
C19_Witness ==
    /\ BoundsReturned
    /\ Len(lastCall.result.nodes) = 3
    /\ lastCall.result.maxDist2 > MemberDist2(lastCall.result, 3)
    /\ MemberDist2(lastCall.result, 3) > 0

----------------------------------------------------------------------------
(* Properties of DataLoader.load (SpecLoad) *)

\* the paths fetched so far, in order
TriedPaths == [k \in 1..Len(loadTried) |-> loadTried[k][1]]
\* the response fetched from the k-th path was ok
ResponseOk(k) == loadTried[k][2] \in {"ok"} \cup BodyOutcomes
\* the k-th path yielded data: its body was read and transformed
YieldedData(k) == loadTried[k][2] = "data"
\* one path at a time, every all_participants path before any
\* sample_participants path, no path twice
TriedInOrder ==
    /\ \A j, k \in 1..Len(loadTried) :
          /\ j < k => TriedPaths[j] # TriedPaths[k]
          /\ (IncludesSample(TriedPaths[j]) /\ IncludesAll(TriedPaths[k])) => k < j
          /\ j < k => ~YieldedData(j)
    /\ \A path \in {possiblePaths[k] : k \in 1..Len(possiblePaths)} :
          (loadResult = Rejected) => \E k \in 1..Len(loadTried) : TriedPaths[k] = path
\* load() rejects exactly when it has settled and no path yielded data
RejectsIffNoData ==
    /\ loadResult = Rejected => \A k \in 1..Len(loadTried) : ~YieldedData(k)
    /\ (loadResult # Rejected /\ ~AwaitsBody /\ Len(loadTried) = Len(uniquePaths)) =>
          \E k \in 1..Len(loadTried) : YieldedData(k)
    /\ (loadResult = Pending) => \A k \in 1..Len(loadTried) : ~YieldedData(k)

\* C20 as stated: load() tries the paths one after another, every
\* all_participants path before any sample_participants path and each path
\* at most once; it resolves with the transformed data of the first path
\* whose response is ok, and rejects if and only if no path yields data.
C20_FirstOkResponse ==
    /\ TriedInOrder
    /\ RejectsIffNoData
    /\ loadResult.kind = "resolved" =>
          \E k \in 1..Len(loadTried) :
              /\ ResponseOk(k) /\ \A j \in 1..(k - 1) : ~ResponseOk(j)
              /\ loadResult = Resolved(TriedPaths[k])

\* C20 as amended: the same, but load() resolves with the transformed data of
\* the first path whose response is ok and whose body is read and
\* transformed without an error.
C20_FirstPathWithData ==
    /\ TriedInOrder
    /\ RejectsIffNoData
    /\ loadResult.kind = "resolved" =>
          \E k \in 1..Len(loadTried) :
              /\ YieldedData(k) /\ \A j \in 1..(k - 1) : ~YieldedData(j)
              /\ loadResult = Resolved(TriedPaths[k])
\* the three all_participants paths gave nothing, the second of them with an
\* ok response whose body could not be read; the first sample path gave data
C20_Witness ==
    /\ loadResult.kind = "resolved"
    /\ Len(loadTried) = 4
    /\ loadTried[2][2] = "bad_body"
    /\ IncludesSample(loadTried[4][1])
    /\ loadResult = Resolved(<<"./data/", SampleFile>>)

----------------------------------------------------------------------------
(* Properties of GroupIsotypeRenderer (SpecGroups) *)

\* C21: with encoding 'size', of two groups with the same samples the one
\* with the larger count has its glyphs drawn at a larger radius.
C21_LargerGroupLargerGlyphs ==
    grpCall.fn = "renderGroups" =>
        LET groups == GroupsOf(grpIn)
            drawn == grpCall.result
        IN  \A a, b \in 1..Len(groups) :
                groups[a].count < groups[b].count =>
                    \A i \in 1..Min(Len(drawn[a]), Len(drawn[b])) :
                        FracLT(drawn[a][i].radius, drawn[b][i].radius)

\* C30: on a non-empty list selectDiverseSamples returns exactly `count`
\* samples, all of them samples of the list, whatever the method.
C30_ExactlyCount ==
    grpCall.fn = "selectDiverseSamples" /\ Len(grpIn.samples) > 0 =>
        /\ Len(grpCall.result) = grpIn.count
        /\ \A i \in 1..Len(grpCall.result) : grpCall.result[i] \in 1..Len(grpIn.samples)

----------------------------------------------------------------------------
(* Properties of the running application (SpecUi, SpecLayout, SpecJump) *)

\* the nodes a set S reaches over the links ls
RECURSIVE ReachedOver(_, _, _)
ReachedOver(S, nodeSet, ls) ==
    LET T == S \cup {b \in nodeSet :
                       \E a \in S : \E k \in 1..Len(ls) :
                          {ls[k].source, ls[k].target} = {a, b}}
    IN  IF T = S THEN S ELSE ReachedOver(T, nodeSet, ls)
\* the connected components with at least 2 nodes of the graph of all links
ComponentsOver(ns, ls) ==
    LET nodeSet == {ns[k] : k \in 1..Len(ns)}
    IN  {c \in {ReachedOver({a}, nodeSet, ls) : a \in nodeSet} : Cardinality(c) >= 2}
CurrentNodes == {appNodes[k] : k \in 1..Len(appNodes)}

\* C24: at every render each link of app.links has similarity >= the current
\* config.similarityThreshold, and the fusion shapes drawn are exactly the
\* connected components with at least 2 nodes of the whole link list.
C24_RenderSeesCurrentLinks ==
    /\ \A k \in 1..Len(lastRender.links) :
          SimGE(lastRender.links[k].similarity, Hundredths(lastRender.threshold))
    /\ lastRender.fusion =>
          /\ {Members(lastRender.clusters[k]) : k \in 1..Len(lastRender.clusters)}
                = ComponentsOver(lastRender.nodes, lastRender.links)
          /\ Len(lastRender.clusters)
                = Cardinality(ComponentsOver(lastRender.nodes, lastRender.links))
\* a render after the threshold was lowered and raised again, which drew one
\* fusion shape and left a node out of it
C24_Witness ==
    /\ generation = 3
    /\ config.similarityThreshold = DefaultThreshold
    /\ lastRender.fusion
    /\ lastRender.nodes = appNodes
    /\ Len(lastRender.clusters) = 1
    /\ Len(lastRender.clusters[1]) < Len(appNodes)

\* C25: app.highlightedNode is null or an element of the current app.nodes,
\* so that a render draws no node that is not in the current node list.
C25_HighlightedIsCurrent ==
    /\ highlightedNode = NoNode \/ highlightedNode \in CurrentNodes
    /\ \A k \in 1..Len(lastRender.drawn) :
          lastRender.drawn[k] \in {lastRender.nodes[m] : m \in 1..Len(lastRender.nodes)}

\* C26: when a node is hovered or clicked, the 'Connections' count shown and
\* app.highlightedLinks are the links of the current app.links that have the
\* node as source or target.
C26_DegreeFromCurrentLinks ==
    [][(pointer' # 0 /\ (pointer = 0 \/ selectedNode' # selectedNode))
          => LET node == circles'[pointer']
                 current == SelectSeq(appLinks', LAMBDA link :
                                link.source = node \/ link.target = node)
             IN  /\ highlightedLinks' = current
                 /\ connections' = Len(current)]_vars

\* C27: once a node is selected, in every state in which the pointer is over
\* no node app.highlightedNode is the selected node.
C27_SelectedStaysHighlighted ==
    selectedNode # NoNode /\ pointer = 0 => highlightedNode = selectedNode

\* C28: the jump animation does not change a node's position: in the step
\* in which an animation ends, node.x and node.y of every node stay what the
\* layout and the simulation wrote last.
C28_JumpKeepsPosition ==
    [][(\E k \in ParticipantIds : jumping[k].on /\ ~jumping'[k].on)
          => position' = position]_vars

\* C29: at most one force simulation is running, and it is this.simulation:
\* every simulation created earlier has been stopped.
C29_AtMostOneSimulation ==
    /\ Cardinality(running) <= 1
    /\ running \subseteq {simulation}
\* a third simulation runs, created on the nodes of a rebuilt list while a
\* delayed updateLayout is pending
C29_Witness ==
    /\ Len(simulations) = 3
    /\ running = {3}
    /\ simulations[3] > simulations[1]
    /\ timers > 0

====
